---- MODULE Spec2Model ----
(***************************************************************************)
(* The watch-debounce-refresh engine of home-podcast: library.Library      *)
(* (internal/library/library.go) and auth.TokenStore                       *)
(* (internal/auth/token_store.go).  One watcher instance is modelled; the  *)
(* variable kind says which of the two it is.  The goroutines are the      *)
(* event pump (run), the time.AfterFunc callbacks, the callers of Close    *)
(* and one reader (ListEpisodes / IsValidToken).                           *)
(* The constructors, the handleEvent policies, the catalog walk and the    *)
(* parsing of the token file have a specification of their own each.       *)
(***************************************************************************)
EXTENDS Integers, Sequences, FiniteSets, TLC

VARIABLES
    kind,           \* "library" or "tokenstore"
    disk,           \* the watched source on disk: [state, ver]
    done,           \* the done channel is closed
    refreshMu,      \* owner of the timer lock
    refreshTimer,   \* the timer handle: 0 is nil, t > 0 is timer t
    timers,         \* every time.AfterFunc timer: [pc, out, burst]
    mu,             \* the snapshot RWMutex: [writer, readers]
    published,      \* l.episodes / s.tokens: [ptr, len]
    pump,           \* position of run()
    watches,        \* paths registered with watcher.Add
    notifierClosed, \* watcher.Close() has been called
    closers,        \* every caller of Close(): [pc, ret, did], did the
                    \* teardown steps the caller has executed, in order
    onceState,      \* closeOnce: "fresh", "running", "done"
    closeErr,       \* l.closeErr
    bodyRuns,       \* history: executions of the closeOnce body
    reader,         \* the reader: [pc, result]
    calls,          \* history: scheduleRefresh calls that passed the done check
    heap,           \* cells reachable through *string / *float64 / *int fields
    copies,         \* slices returned by ListEpisodes to two callers
    slice,          \* l.episodes as a slice of Episode structs (snapshot isolation)
    ctor,           \* NewLibrary / NewTokenStore: [pc, notifier, cause, out]
    evt,            \* the one event the notifier delivers, or AnyEvent
    tok,            \* token file parsing and lookup: [data, tokens, pc, query, answer]
    cat,            \* one catalog walk: [tree, pc, episodes, err, listed,
                    \* modTime]
    srv             \* main and the HTTP handler: [pc, enabled, tokens, store,
                    \* validator, req, resp, served]

vars == <<kind, disk, done, refreshMu, refreshTimer, timers, mu, published,
          pump, watches, notifierClosed, closers, onceState,
          closeErr, bodyRuns, reader, calls, heap, copies, slice,
          ctor, evt, tok, cat, srv>>

isoVars == <<heap, copies, slice>>
funVars == <<evt, tok, cat, srv>>

(***************************************************************************)
(* Bounds                                                                  *)
(***************************************************************************)
\* notifier events that schedule a refresh, hence timers armed
MaxTimers == 3
\* the same in the specification with a reader
MaxReadTimers == 2
\* the same in the specification with several callers of Close
MaxCloseTimers == 2
\* timer callbacks running at the same time
MaxInFlight == 2
\* changes of the watched source
MaxDisk == 1
\* concurrent callers of Close()
NumClosers == 2
\* operation bits set in one notifier event
MaxOpBits == 2
\* timers armed in the specification of the constructors
MaxNewTimers == 1
\* timers armed in the specification of the event policies
MaxPolicyTimers == 1
\* entries of the root directory in one catalog walk
MaxFiles == 3
\* characters of the token file
MaxFileLen == 4
\* characters of the argument of IsValidToken
MaxQueryLen == 2
\* timers armed in the specifications of the shutdown
MaxShutTimers == 1
\* ticks of the file system clock in one second
TicksPerSecond == 4
\* the latest modification time of a file, in ticks
MaxModTime == 9
\* requests the HTTP handler answers
MaxRequests == 2
\* timers armed in the specification of the convergence
MaxConvTimers == 2

Timers == 1..MaxTimers
Closers == 1..NumClosers
Kinds == {"library", "tokenstore"}

(***************************************************************************)
(* The watched source.  state "ok": root readable / token file readable;   *)
(* "missing": it does not exist; "unreadable": any other error.  ver       *)
(* identifies the content; every version of a readable source holds at     *)
(* least one qualifying file / one token.                                  *)
(***************************************************************************)
DiskStates == {"ok", "missing", "unreadable"}

\* Value of a snapshot: 0 is the empty list / empty token set, v + 1 the
\* records / tokens of content version v.
EmptyVal == 0
ContentVal(d) == d.ver + 1

\* saw is the state of the source that the recompute read
NoOut == [val |-> EmptyVal, seq |-> 0, err |-> "unset", saw |-> "unset"]

\* Library.refresh up to the sort: the WalkDir callback logs every error it is
\* handed and returns nil, so an unreadable or missing root ends the walk with
\* no episode and a nil error.
LibraryWalk(d, seq) ==
    IF d.state = "ok"
    THEN [val |-> ContentVal(d), seq |-> seq, err |-> "nil", saw |-> d.state]
    ELSE [val |-> EmptyVal, seq |-> seq, err |-> "walk", saw |-> d.state]

\* TokenStore.refresh up to the swap: ErrNotExist gives the empty set and a nil
\* error, any other read error is returned.
TokenStoreLoadStrict(d, seq) ==
    IF d.state = "ok"
    THEN [val |-> ContentVal(d), seq |-> seq, err |-> "nil", saw |-> d.state]
    ELSE [val |-> EmptyVal, seq |-> seq, err |-> "read", saw |-> d.state]
TokenStoreLoad(d, seq) ==
    CASE d.state = "ok" ->
             [val |-> ContentVal(d), seq |-> seq, err |-> "nil", saw |-> d.state]
      [] d.state = "missing" ->
             [val |-> EmptyVal, seq |-> seq, err |-> "nil", saw |-> d.state]
      [] OTHER ->
             [val |-> EmptyVal, seq |-> seq, err |-> "read", saw |-> d.state]

Recompute(k, d, seq) ==
    IF k = "library" THEN LibraryWalk(d, seq) ELSE TokenStoreLoad(d, seq)

\* refresh() returned a non-nil error (nothing was published)
RefreshFailedNever(out) == FALSE
RefreshFailed(out) == out.err = "read"

(***************************************************************************)
(* Strings and paths.  A string is a sequence of characters; "LF" is the   *)
(* line feed and "/" the path separator.                                   *)
(***************************************************************************)
\* strings.ToLower, on the letters that occur in the paths below
LowerChar(c) == CASE c = "W" -> "w" [] c = "T" -> "t" [] OTHER -> c
ToLower(s) == [i \in 1..Len(s) |-> LowerChar(s[i])]

\* filepath.Ext: the suffix that starts at the last dot of the last element
RECURSIVE ExtFrom(_, _)
ExtFrom(path, i) ==
    IF i = 0 \/ path[i] = "/" THEN <<>>
    ELSE IF path[i] = "." THEN SubSeq(path, i, Len(path))
    ELSE ExtFrom(path, i - 1)

Ext(path) == ExtFrom(path, Len(path))

\* strings.Split(s, sep) for a separator of one character
RECURSIVE SplitFrom(_, _, _)
SplitFrom(s, sep, cur) ==
    IF s = <<>> THEN <<cur>>
    ELSE IF Head(s) = sep THEN <<cur>> \o SplitFrom(Tail(s), sep, <<>>)
    ELSE SplitFrom(Tail(s), sep, Append(cur, Head(s)))

Split(s, sep) == SplitFrom(s, sep, <<>>)

RECURSIVE Join(_, _)
Join(elems, sep) ==
    IF elems = <<>> THEN <<>>
    ELSE IF Len(elems) = 1 THEN elems[1]
    ELSE elems[1] \o <<sep>> \o Join(Tail(elems), sep)

\* filepath.Clean: empty and "." elements are dropped, ".." removes the
\* element before it (or is kept at the start of a relative path, dropped at
\* the root); the empty result is "."
RECURSIVE CleanElems(_, _, _)
CleanElems(elems, acc, rooted) ==
    IF elems = <<>> THEN acc
    ELSE LET e == Head(elems)
             rest == Tail(elems) IN
         CASE e = <<>> \/ e = <<".">> -> CleanElems(rest, acc, rooted)
           [] e = <<".", ".">> ->
                IF acc # <<>> /\ acc[Len(acc)] # <<".", ".">>
                THEN CleanElems(rest, SubSeq(acc, 1, Len(acc) - 1), rooted)
                ELSE IF rooted THEN CleanElems(rest, acc, rooted)
                ELSE CleanElems(rest, Append(acc, e), rooted)
           [] OTHER -> CleanElems(rest, Append(acc, e), rooted)

Clean(path) ==
    LET rooted == path # <<>> /\ path[1] = "/"
        out == Join(CleanElems(Split(path, "/"), <<>>, rooted), "/") IN
    IF rooted THEN <<"/">> \o out
    ELSE IF out = <<>> THEN <<".">> ELSE out

\* filepath.Dir: all but the last element, cleaned
RECURSIVE LastSep(_, _)
LastSep(path, i) ==
    IF i = 0 \/ path[i] = "/" THEN i ELSE LastSep(path, i - 1)

Dir(path) == Clean(SubSeq(path, 1, LastSep(path, Len(path))))

(***************************************************************************)
(* Notifier events and the handleEvent policies                            *)
(***************************************************************************)
Ops == {"Create", "Write", "Remove", "Rename", "Chmod"}

\* fsnotify.Op is a bit mask: an event carries a non-empty set of operations
OpSets == {m \in SUBSET Ops : Cardinality(m) \in 1..MaxOpBits}

\* event.Op & mask != 0
Has(op, mask) == op \cap mask # {}

\* the root argument of NewLibrary and the names below it
RootDir == <<"r">>
InRoot(name) == RootDir \o <<"/">> \o name
SubDir == InRoot(<<"s">>)
LibraryPaths ==
    {InRoot(<<"a", ".", "w">>), InRoot(<<"a", ".", "W">>),
     InRoot(<<"n", ".", "t">>), SubDir,
     InRoot(<<"s", ".", "w", "/", "n">>)}

\* the allowed argument of NewLibrary and the l.allowed map built from it
AllowedArg == {<<".", "W">>}
allowed == {ToLower(e) : e \in AllowedArg}

\* the filePath argument of NewTokenStore, s.file and the watched directory
FilePathArg == <<"d", "/", ".", "/", "t">>
TokenFile == Clean(FilePathArg)
TokenDir == Dir(TokenFile)
TokenStorePaths ==
    {<<"d", "/", "t">>, <<"d", "/", "o">>, <<"d", "/", "t", "o">>,
     <<"d", "/", ".", "/", "t">>, <<"d", "/", "o", "/", ".", ".", "/", "t">>,
     <<"t">>}

EventPaths(k) == IF k = "library" THEN LibraryPaths ELSE TokenStorePaths
Events(k) == [path : EventPaths(k), op : OpSets]

\* the events of plain file operations: one operation on a clean path
PlainPaths(k) ==
    IF k = "library"
    THEN {InRoot(<<"a", ".", "w">>), InRoot(<<"n", ".", "t">>), SubDir}
    ELSE {<<"d", "/", "t">>, <<"d", "/", "o">>}

PlainEvents(k) == [path : PlainPaths(k), op : {{o} : o \in Ops}]

\* the notifier delivers the plain events, or only the event under study
AnyEvent == [path |-> <<>>, op |-> {}]
Delivered(k, e) == IF e = AnyEvent THEN PlainEvents(k) ELSE {e}

isAllowed(path) == ToLower(Ext(path)) \in allowed

\* Library.handleEvent, second if: does the event call scheduleRefresh?
LibrarySchedulesAllowedOnly(ev) ==
    /\ Has(ev.op, {"Create", "Write", "Remove", "Rename"})
    /\ isAllowed(ev.path)
LibrarySchedules(ev) ==
    /\ Has(ev.op, {"Create", "Write", "Remove", "Rename"})
    /\ (isAllowed(ev.path) \/ Has(ev.op, {"Remove", "Rename"}))

\* TokenStore.handleEvent
TokenStoreSchedulesAnyPath(ev) ==
    Has(ev.op, {"Create", "Write", "Remove", "Rename"})
TokenStoreSchedules(ev) ==
    /\ Clean(ev.path) = TokenFile
    /\ Has(ev.op, {"Create", "Write", "Remove", "Rename"})

Schedules(k, ev) ==
    IF k = "library" THEN LibrarySchedules(ev) ELSE TokenStoreSchedules(ev)

\* an event with the decision of handleEvent on it
Decided(k, ev) == [ev |-> ev, sched |-> Schedules(k, ev)]
PlainDecided == [k \in Kinds |-> {Decided(k, ev) : ev \in PlainEvents(k)}]

\* what run() receives: the delivered events, each with its decision
Received(k, e) ==
    IF e = AnyEvent THEN PlainDecided[k]
    ELSE {Decided(k, ev) : ev \in Delivered(k, e)}

\* Library.handleEvent, first if: a created directory is watched
LibraryAddsWatch(ev, isDir) == "Create" \in ev.op /\ isDir

(***************************************************************************)
(* Locks                                                                   *)
(***************************************************************************)
Free == [who |-> "free", id |-> 0]
ByPump == [who |-> "pump", id |-> 0]
ByTimer(t) == [who |-> "timer", id |-> t]
ByCloser(c) == [who |-> "closer", id |-> c]

\* sync.RWMutex: RLock waits for the writer, Lock for the writer and readers
CanRLockAlways(m) == TRUE
CanRLock(m) == m.writer = 0
CanLock(m) == m.writer = 0 /\ m.readers = 0

(***************************************************************************)
(* Timers                                                                  *)
(***************************************************************************)
Armed == {t \in Timers : timers[t].pc # "unarmed"}
NumArmed == Cardinality(Armed)

\* time.Timer.Stop: prevents the firing of a timer that has not fired yet and
\* does nothing for one that has (its callback goes on running).
Stop(tms, h) ==
    IF h # 0 /\ tms[h].pc = "pending"
    THEN [tms EXCEPT ![h].pc = "stopped"]
    ELSE tms

\* the handle test of the timer callback
LibraryCallbackClear(h, t) == IF h = t THEN 0 ELSE h
TokenStoreCallbackClear(h, t) == IF h # 0 THEN 0 ELSE h
CallbackClear(k, h, t) ==
    IF k = "library" THEN LibraryCallbackClear(h, t)
    ELSE TokenStoreCallbackClear(h, t)

\* the timers whose callback goroutine is running
Running == {t \in Timers : timers[t].pc \in {"fired", "read", "pub", "post", "clear"}}

\* source reads started so far: the constructor's is number 1
Reads == 1 + Cardinality({t \in Timers : timers[t].out.seq # 0})

Snap(out) == [ptr |-> out, len |-> out]

(***************************************************************************)
(* Initial state: the constructor has returned a running watcher           *)
(***************************************************************************)
InitDisk == [state |-> "ok", ver |-> 0]

\* what a successful constructor has registered with the notifier
Watched(k) == IF k = "library" THEN {RootDir} ELSE {TokenDir, TokenFile}

\* the constructor after its return
Constructed(k) ==
    [pc |-> "returned", notifier |-> "open", cause |-> "none",
     out |-> Recompute(k, InitDisk, 1), queued |-> 0]

\* no timer, no lock held, nobody in Close, the reader idle
InitIdle ==
    /\ done = FALSE
    /\ refreshMu = Free
    /\ refreshTimer = 0
    /\ timers = [t \in Timers |-> [pc |-> "unarmed", out |-> NoOut, burst |-> FALSE]]
    /\ mu = [writer |-> 0, readers |-> 0]
    /\ notifierClosed = FALSE
    /\ closers = [c \in Closers |->
                    [pc |-> "idle", ret |-> "none", did |-> <<>>]]
    /\ onceState = "fresh"
    /\ closeErr = "nil"
    /\ bodyRuns = 0
    /\ reader = [pc |-> "idle", result |-> Snap(NoOut)]
    /\ calls = 0

InitWatcher ==
    /\ kind \in Kinds
    /\ disk = InitDisk
    /\ ctor = Constructed(kind)
    /\ published = Snap(ctor.out)
    /\ pump = "select"
    /\ watches = Watched(kind)
    /\ InitIdle

InitIso ==
    /\ heap = <<>>
    /\ copies = <<>>
    /\ slice = <<>>

\* no token file and no catalog tree under study
NoTok == [data |-> <<>>, tokens |-> {}, pc |-> "unused", query |-> <<>>,
          trimmed |-> <<>>, answer |-> FALSE]
NoCat == [tree |-> <<>>, pc |-> "unused", episodes |-> <<>>, err |-> "nil",
          listed |-> <<>>, modTime |-> 0]

\* a nil interface value, and the value a nil *auth.TokenStore becomes when
\* it is passed as a server.TokenValidator
NilInterface == [type |-> "nil", ptr |-> 0]
NoReq == [path |-> "", query |-> "", header |-> "",
          authz |-> [scheme |-> "none", value |-> ""], cookie |-> ""]
NoSrv == [pc |-> "unused", enabled |-> FALSE, tokens |-> {}, store |-> 0,
          validator |-> NilInterface, req |-> NoReq, resp |-> "none",
          served |-> 0]

InitTok == tok = NoTok
InitCat == cat = NoCat
InitSrv == srv = NoSrv
InitFun == evt = AnyEvent /\ InitTok /\ InitCat /\ InitSrv

Init == InitWatcher /\ InitIso /\ InitFun

(***************************************************************************)
(* The constructors NewLibrary and NewTokenStore, step by step.  Nothing   *)
(* else holds the watcher before the constructor returns it.               *)
(***************************************************************************)
InitNew ==
    /\ kind \in Kinds
    /\ disk \in [state : DiskStates, ver : {0}]
    /\ ctor = [pc |-> "start", notifier |-> "none", cause |-> "none",
               out |-> NoOut, queued |-> 0]
    /\ published = Snap(NoOut)
    /\ pump = "unstarted"
    /\ watches = {}
    /\ InitIdle
    /\ InitIso
    /\ InitFun

\* the notifier is created and has not been closed
NotifierOpen == ctor.notifier = "open" /\ ~notifierClosed

\* the error paths of the constructors call watcher.Close() before returning
LeakOnFailure(closed) == closed
CloseOnFailure(closed) == TRUE

\* the swap at the end of the constructor's refresh()
CtorPublishNone(old, out) == old
CtorPublish(old, out) == Snap(out)

\* the position after the initial refresh
AfterRefresh(k) == IF k = "library" THEN "go" ELSE "adddir"

\* fsnotify.NewWatcher(); on an error the constructor returns it
NewWatcher ==
    /\ ctor.pc = "start"
    /\ \E ok \in BOOLEAN :
         ctor' = IF ok
                 THEN [ctor EXCEPT !.notifier = "open",
                                   !.pc = IF kind = "library" THEN "addwatch"
                                          ELSE "refresh"]
                 ELSE [ctor EXCEPT !.pc = "failed", !.cause = "notifier"]
    /\ UNCHANGED <<kind, disk, done, refreshMu, refreshTimer, timers, mu,
                   published, pump, watches, notifierClosed, closers,
                   onceState, closeErr, bodyRuns, reader, calls, isoVars,
                   funVars>>

\* NewLibrary: lib.addWatchRecursive(root); walk and watcher.Add errors are
\* only logged
NewAddWatchRecursive ==
    /\ kind = "library"
    /\ ctor.pc = "addwatch"
    /\ \E ok \in BOOLEAN :
         watches' = IF ok /\ disk.state = "ok" THEN {RootDir} ELSE {}
    /\ ctor' = [ctor EXCEPT !.pc = "refresh"]
    /\ UNCHANGED <<kind, disk, done, refreshMu, refreshTimer, timers, mu,
                   published, pump, notifierClosed, closers, onceState,
                   closeErr, bodyRuns, reader, calls, isoVars, funVars>>

\* the synchronous initial refresh(); on an error the notifier is closed and
\* the error returned
NewRefresh ==
    /\ ctor.pc = "refresh"
    /\ LET out == Recompute(kind, disk, 1) IN
         IF RefreshFailed(out)
         THEN /\ ctor' = [ctor EXCEPT !.pc = "failed", !.cause = "refresh",
                                      !.out = out]
              /\ notifierClosed' = CloseOnFailure(notifierClosed)
              /\ UNCHANGED published
         ELSE /\ ctor' = [ctor EXCEPT !.pc = AfterRefresh(kind), !.out = out]
              /\ published' = CtorPublish(published, out)
              /\ UNCHANGED notifierClosed
    /\ UNCHANGED <<kind, disk, done, refreshMu, refreshTimer, timers, mu,
                   pump, watches, closers, onceState, closeErr, bodyRuns,
                   reader, calls, isoVars, funVars>>

\* NewTokenStore: watcher.Add(dir); on an error the notifier is closed and the
\* error returned
NewAddDir ==
    /\ kind = "tokenstore"
    /\ ctor.pc = "adddir"
    /\ \E ok \in BOOLEAN :
         IF ok
         THEN /\ watches' = watches \cup {TokenDir}
              /\ ctor' = [ctor EXCEPT !.pc = "addfile"]
              /\ UNCHANGED notifierClosed
         ELSE /\ ctor' = [ctor EXCEPT !.pc = "failed", !.cause = "watch"]
              /\ notifierClosed' = CloseOnFailure(notifierClosed)
              /\ UNCHANGED watches
    /\ UNCHANGED <<kind, disk, done, refreshMu, refreshTimer, timers, mu,
                   published, pump, closers, onceState, closeErr, bodyRuns,
                   reader, calls, isoVars, funVars>>

\* NewTokenStore: watcher.Add(s.file); an error (the file may not exist) is
\* only logged
NewAddFile ==
    /\ kind = "tokenstore"
    /\ ctor.pc = "addfile"
    /\ \E ok \in BOOLEAN :
         watches' = IF ok /\ disk.state # "missing"
                    THEN watches \cup {TokenFile} ELSE watches
    /\ ctor' = [ctor EXCEPT !.pc = "go"]
    /\ UNCHANGED <<kind, disk, done, refreshMu, refreshTimer, timers, mu,
                   published, pump, notifierClosed, closers, onceState,
                   closeErr, bodyRuns, reader, calls, isoVars, funVars>>

\* wg.Add(1); go run(); return
NewStart ==
    /\ ctor.pc = "go"
    /\ pump' = "select"
    /\ ctor' = [ctor EXCEPT !.pc = "returned"]
    /\ UNCHANGED <<kind, disk, done, refreshMu, refreshTimer, timers, mu,
                   published, watches, notifierClosed, closers, onceState,
                   closeErr, bodyRuns, reader, calls, isoVars, funVars>>

\* The watched content changes while the constructor runs or after it: the
\* root gets a qualifying file, the token file is written.  The notifier
\* reports the change only if a watch that covers it is registered by then;
\* the event waits (ctor.queued) until run() receives it.
CtorChange ==
    /\ disk.ver < MaxDisk
    /\ disk' = [state |-> "ok", ver |-> disk.ver + 1]
    /\ LET covered == IF kind = "library" THEN RootDir \in watches
                       ELSE watches \cap {TokenDir, TokenFile} # {} IN
         ctor' = IF NotifierOpen /\ covered
                 THEN [ctor EXCEPT !.queued = @ + 1] ELSE ctor
    /\ UNCHANGED <<kind, done, refreshMu, refreshTimer, timers, mu, published,
                   pump, watches, notifierClosed, closers, onceState,
                   closeErr, bodyRuns, reader, calls, isoVars, funVars>>

\* run: case event := <-watcher.Events for an event that waited; handleEvent
\* finds a Create or Write of a qualifying file / of the token file and
\* calls scheduleRefresh
RunRecvQueued(limit) ==
    /\ pump = "select"
    /\ ~notifierClosed
    /\ ctor.queued > 0
    /\ NumArmed < limit
    /\ ctor' = [ctor EXCEPT !.queued = @ - 1]
    /\ pump' = "sched"
    /\ UNCHANGED <<kind, disk, done, refreshMu, refreshTimer, timers, mu,
                   published, watches, notifierClosed, closers, onceState,
                   closeErr, bodyRuns, reader, calls, isoVars, funVars>>

(***************************************************************************)
(* The event pump: run, handleEvent, scheduleRefresh                       *)
(***************************************************************************)
\* run: case event := <-watcher.Events, then handleEvent up to the call of
\* scheduleRefresh.  The Events channel is unbuffered: the notifier's send and
\* this receive are one step.  isDir is the answer of os.Stat(event.Name);
\* limit bounds the events that schedule a refresh.
RunRecvEvent(limit) ==
    /\ pump = "select"
    /\ ~notifierClosed
    /\ \E rcv \in Received(kind, evt) :
       \E isDir \in IF rcv.ev.path = SubDir THEN BOOLEAN ELSE {FALSE} :
         /\ rcv.sched => NumArmed < limit
         /\ watches' = IF kind = "library" /\ LibraryAddsWatch(rcv.ev, isDir)
                       THEN watches \cup {rcv.ev.path} ELSE watches
         /\ pump' = IF rcv.sched THEN "sched" ELSE "ignored"
    /\ UNCHANGED <<kind, disk, done, refreshMu, refreshTimer, timers, mu,
                   published, notifierClosed, closers, onceState, closeErr,
                   bodyRuns, reader, calls, isoVars, ctor, funVars>>

\* run: case err := <-watcher.Errors, logged
RunRecvError ==
    /\ pump = "select"
    /\ ~notifierClosed
    /\ pump' = "logged"
    /\ UNCHANGED <<kind, disk, done, refreshMu, refreshTimer, timers, mu,
                   published, watches, notifierClosed, closers,
                   onceState, closeErr, bodyRuns, reader, calls,
                   isoVars, ctor, funVars>>

\* run: handleEvent returned without scheduling, or the error was logged;
\* back to the select
RunLoop ==
    /\ pump \in {"ignored", "logged", "noop"}
    /\ pump' = "select"
    /\ UNCHANGED <<kind, disk, done, refreshMu, refreshTimer, timers, mu,
                   published, watches, notifierClosed, closers,
                   onceState, closeErr, bodyRuns, reader, calls,
                   isoVars, ctor, funVars>>

\* run: case <-done, or a receive from a closed channel; defer wg.Done()
RunExit ==
    /\ pump = "select"
    /\ done \/ notifierClosed
    /\ pump' = "exited"
    /\ UNCHANGED <<kind, disk, done, refreshMu, refreshTimer, timers, mu,
                   published, watches, notifierClosed, closers,
                   onceState, closeErr, bodyRuns, reader, calls, isoVars, ctor, funVars>>

\* the non-blocking receive from done at the top of scheduleRefresh: it
\* succeeds exactly when done is closed
SeesDoneNever(d) == FALSE
SeesDone(d) == d

\* scheduleRefresh: select { case <-done: return; default: }
ScheduleRefreshCheck ==
    /\ pump = "sched"
    /\ pump' = IF SeesDone(done) THEN "noop" ELSE "lock"
    /\ calls' = IF SeesDone(done) THEN calls ELSE calls + 1
    /\ UNCHANGED <<kind, disk, done, refreshMu, refreshTimer, timers, mu,
                   published, watches, notifierClosed, closers, onceState,
                   closeErr, bodyRuns, reader, isoVars, ctor, funVars>>

\* the timers after scheduleRefresh's critical section: the timer under the
\* handle is stopped and timer new is armed
ArmUnlessHandleSet(tms, h, new) ==
    IF h # 0 THEN Stop(tms, h)
    ELSE [tms EXCEPT ![new] = [pc |-> "pending", out |-> NoOut,
                               burst |-> new > 1 /\ tms[new - 1].pc = "pending"]]
Arm(tms, h, new) ==
    [Stop(tms, h) EXCEPT ![new] = [pc |-> "pending", out |-> NoOut,
                                   burst |-> new > 1 /\ tms[new - 1].pc = "pending"]]

\* scheduleRefresh: refreshMu.Lock(); Stop the old timer; AfterFunc; set handle
ScheduleRefreshArm ==
    /\ pump = "lock"
    /\ refreshMu = Free
    /\ LET new == NumArmed + 1 IN
         /\ timers' = Arm(timers, refreshTimer, new)
         /\ refreshTimer' = new
    /\ refreshMu' = ByPump
    /\ pump' = "unlock"
    /\ UNCHANGED <<kind, disk, done, mu, published, watches,
                   notifierClosed, closers, onceState, closeErr, bodyRuns,
                   reader, calls, isoVars, ctor, funVars>>

\* scheduleRefresh: the deferred refreshMu.Unlock() and the return to run
ScheduleRefreshUnlock ==
    /\ pump = "unlock"
    /\ refreshMu' = Free
    /\ pump' = "select"
    /\ UNCHANGED <<kind, disk, done, refreshTimer, timers, mu, published,
                   watches, notifierClosed, closers, onceState,
                   closeErr, bodyRuns, reader, calls, isoVars, ctor, funVars>>

(***************************************************************************)
(* The timer: the runtime fires it, the callback runs refresh and then     *)
(* clears the handle                                                       *)
(***************************************************************************)
\* the runtime starts the callback of an expired timer in its own goroutine
TimerFire(t) ==
    /\ timers[t].pc = "pending"
    /\ Cardinality(Running) < MaxInFlight
    /\ timers' = [timers EXCEPT ![t].pc = "fired"]
    /\ UNCHANGED <<kind, disk, done, refreshMu, refreshTimer, mu, published,
                   pump, watches, notifierClosed, closers,
                   onceState, closeErr, bodyRuns, reader, calls, isoVars, ctor, funVars>>

\* a refresh that takes the snapshot lock before it reads the source
RefreshReadLocked(t) ==
    /\ timers[t].pc = "fired"
    /\ CanLock(mu)
    /\ mu' = [mu EXCEPT !.writer = t]
    /\ LET out == Recompute(kind, disk, Reads + 1) IN
         timers' = [timers EXCEPT ![t].out = out,
                                  ![t].pc = IF RefreshFailed(out) THEN "post"
                                            ELSE "read"]
    /\ UNCHANGED <<kind, disk, done, refreshMu, refreshTimer, published,
                   pump, watches, notifierClosed, closers,
                   onceState, closeErr, bodyRuns, reader, calls, isoVars, ctor, funVars>>

\* a callback that arms its timer again when refresh has failed
RefreshReadRetry(t) ==
    /\ timers[t].pc = "fired"
    /\ LET out == Recompute(kind, disk, Reads + 1) IN
         timers' = [timers EXCEPT ![t].out = out,
                                  ![t].pc = IF RefreshFailed(out) THEN "pending"
                                            ELSE "read"]
    /\ UNCHANGED <<kind, disk, done, refreshMu, refreshTimer, mu, published,
                   pump, watches, notifierClosed, closers,
                   onceState, closeErr, bodyRuns, reader, calls, isoVars, ctor, funVars>>

\* refresh: the walk of the root / the read and parse of the token file, into
\* a local value.  A TokenStore read error returns from refresh here.
RefreshRead(t) ==
    /\ timers[t].pc = "fired"
    /\ LET out == Recompute(kind, disk, Reads + 1) IN
         timers' = [timers EXCEPT ![t].out = out,
                                  ![t].pc = IF RefreshFailed(out) THEN "post"
                                            ELSE "read"]
    /\ UNCHANGED <<kind, disk, done, refreshMu, refreshTimer, mu, published,
                   pump, watches, notifierClosed, closers,
                   onceState, closeErr, bodyRuns, reader, calls, isoVars, ctor, funVars>>

\* the snapshot while the assignment is in progress: a slice is a pointer and
\* a length, written one after the other; the token map is one pointer
LibraryAssignBegin(old, out) == [ptr |-> out, len |-> old.len]
TokenStoreAssignBegin(old, out) == Snap(out)
AssignBegin(k, old, out) ==
    IF k = "library" THEN LibraryAssignBegin(old, out)
    ELSE TokenStoreAssignBegin(old, out)

\* refresh: mu.Lock() and the start of the assignment
RefreshLock(t) ==
    /\ timers[t].pc = "read"
    /\ CanLock(mu)
    /\ mu' = [mu EXCEPT !.writer = t]
    /\ published' = AssignBegin(kind, published, timers[t].out)
    /\ timers' = [timers EXCEPT ![t].pc = "pub"]
    /\ UNCHANGED <<kind, disk, done, refreshMu, refreshTimer, pump, watches, notifierClosed, closers, onceState, closeErr,
                   bodyRuns, reader, calls, isoVars, ctor, funVars>>

\* a refresh that returns to the callback with the snapshot lock still held
RefreshUnlockKept(t) ==
    /\ timers[t].pc = "pub"
    /\ published' = Snap(timers[t].out)
    /\ timers' = [timers EXCEPT ![t].pc = "post"]
    /\ UNCHANGED <<kind, disk, done, refreshMu, refreshTimer, mu, pump, watches,
                   notifierClosed, closers, onceState, closeErr,
                   bodyRuns, reader, calls, isoVars, ctor, funVars>>

\* refresh: the end of the assignment, mu.Unlock() and the return
RefreshUnlock(t) ==
    /\ timers[t].pc = "pub"
    /\ published' = Snap(timers[t].out)
    /\ mu' = [mu EXCEPT !.writer = 0]
    /\ timers' = [timers EXCEPT ![t].pc = "post"]
    /\ UNCHANGED <<kind, disk, done, refreshMu, refreshTimer, pump, watches, notifierClosed, closers, onceState, closeErr,
                   bodyRuns, reader, calls, isoVars, ctor, funVars>>

\* callback: refreshMu.Lock() and the handle test
CallbackLock(t) ==
    /\ timers[t].pc = "post"
    /\ refreshMu = Free
    /\ refreshMu' = ByTimer(t)
    /\ refreshTimer' = CallbackClear(kind, refreshTimer, t)
    /\ timers' = [timers EXCEPT ![t].pc = "clear"]
    /\ UNCHANGED <<kind, disk, done, mu, published, pump, watches,
                   notifierClosed, closers, onceState, closeErr, bodyRuns,
                   reader, calls, isoVars, ctor, funVars>>

\* callback: refreshMu.Unlock(), the goroutine ends
CallbackUnlock(t) ==
    /\ timers[t].pc = "clear"
    /\ refreshMu' = Free
    /\ timers' = [timers EXCEPT ![t].pc = "finished"]
    /\ UNCHANGED <<kind, disk, done, refreshTimer, mu, published, pump,
                   watches, notifierClosed, closers, onceState,
                   closeErr, bodyRuns, reader, calls, isoVars, ctor, funVars>>

(***************************************************************************)
(* Close                                                                   *)
(***************************************************************************)
\* sync.Once: the first caller runs the body
OnceAdmitsAll(state) == TRUE
OnceAdmits(state) == state = "fresh"

\* Close: closeOnce.Do; the admitted caller starts the body with close(done),
\* every other caller waits inside Do for the body to end.  The callers are
\* interchangeable: they are numbered in the order of their calls.
CloseOnceEnter(c) ==
    /\ closers[c].pc = "idle"
    /\ \A b \in Closers : b < c => closers[b].pc # "idle"
    /\ IF OnceAdmits(onceState)
       THEN /\ onceState' = "running"
            /\ done' = TRUE
            /\ bodyRuns' = bodyRuns + 1
            /\ closers' = [closers EXCEPT ![c].pc = "tdLock",
                                          ![c].did = <<"done">>]
       ELSE /\ closers' = [closers EXCEPT ![c].pc = "blocked"]
            /\ UNCHANGED <<onceState, done, bodyRuns>>
    /\ UNCHANGED <<kind, disk, refreshMu, refreshTimer, timers, mu, published,
                   pump, watches, notifierClosed, closeErr, reader, calls,
                   isoVars, ctor, funVars>>

\* a Close that also drops the snapshot
CloseStopTimerClears(c) ==
    /\ closers[c].pc = "tdLock"
    /\ refreshMu = Free
    /\ refreshMu' = ByCloser(c)
    /\ timers' = Stop(timers, refreshTimer)
    /\ refreshTimer' = 0
    /\ published' = Snap(NoOut)
    /\ closers' = [closers EXCEPT ![c].pc = "tdHeld",
                                  ![c].did = Append(@, "cancel")]
    /\ UNCHANGED <<kind, disk, done, mu, pump, watches,
                   notifierClosed, onceState, closeErr, bodyRuns, reader, calls,
                   isoVars, ctor, funVars>>

\* Close: refreshMu.Lock(); if refreshTimer != nil { Stop(); refreshTimer = nil }
CloseStopTimer(c) ==
    /\ closers[c].pc = "tdLock"
    /\ refreshMu = Free
    /\ refreshMu' = ByCloser(c)
    /\ timers' = Stop(timers, refreshTimer)
    /\ refreshTimer' = 0
    /\ closers' = [closers EXCEPT ![c].pc = "tdHeld",
                                  ![c].did = Append(@, "cancel")]
    /\ UNCHANGED <<kind, disk, done, mu, published, pump, watches,
                   notifierClosed, onceState, closeErr, bodyRuns, reader, calls,
                   isoVars, ctor, funVars>>

\* a Close that goes on without releasing the timer lock
CloseUnlockKept(c) ==
    /\ closers[c].pc = "tdHeld"
    /\ closers' = [closers EXCEPT ![c].pc = "tdNotifier"]
    /\ UNCHANGED <<kind, disk, done, refreshMu, refreshTimer, timers, mu,
                   published, pump, watches, notifierClosed, onceState,
                   closeErr, bodyRuns, reader, calls, isoVars, ctor, funVars>>

\* Close: refreshMu.Unlock()
CloseUnlock(c) ==
    /\ closers[c].pc = "tdHeld"
    /\ refreshMu' = Free
    /\ closers' = [closers EXCEPT ![c].pc = "tdNotifier"]
    /\ UNCHANGED <<kind, disk, done, refreshTimer, timers, mu, published,
                   pump, watches, notifierClosed, onceState,
                   closeErr, bodyRuns, reader, calls, isoVars, ctor, funVars>>

\* a Close that closes the notifier before it has cancelled the timer
CloseWatcherEarly(c) ==
    /\ closers[c].pc \in {"tdLock", "tdNotifier"}
    /\ notifierClosed' = TRUE
    /\ \E e \in {"nil", "err"} : closeErr' = e
    /\ closers' = [closers EXCEPT ![c].pc = "tdWait",
                                  ![c].did = Append(@, "notifier")]
    /\ UNCHANGED <<kind, disk, done, refreshMu, refreshTimer, timers, mu,
                   published, pump, watches, onceState, bodyRuns,
                   reader, calls, isoVars, ctor, funVars>>

\* Close: closeErr = watcher.Close()
CloseWatcher(c) ==
    /\ closers[c].pc = "tdNotifier"
    /\ notifierClosed' = TRUE
    /\ \E e \in {"nil", "err"} : closeErr' = e
    /\ closers' = [closers EXCEPT ![c].pc = "tdWait",
                                  ![c].did = Append(@, "notifier")]
    /\ UNCHANGED <<kind, disk, done, refreshMu, refreshTimer, timers, mu,
                   published, pump, watches, onceState, bodyRuns,
                   reader, calls, isoVars, ctor, funVars>>

\* wg.Wait() returns once run has called wg.Done()
WaitDoneAtOnce(p) == TRUE
WaitDone(p) == p = "exited"

\* Close: wg.Wait(), the end of the body
CloseWait(c) ==
    /\ closers[c].pc = "tdWait"
    /\ WaitDone(pump)
    /\ onceState' = "done"
    /\ closers' = [closers EXCEPT ![c].pc = "ret",
                                  ![c].did = Append(@, "wait")]
    /\ UNCHANGED <<kind, disk, done, refreshMu, refreshTimer, timers, mu,
                   published, pump, watches, notifierClosed,
                   closeErr, bodyRuns, reader, calls, isoVars, ctor, funVars>>

\* Close: a caller that was not admitted leaves Do when the body has ended
CloseOnceBlocked(c) ==
    /\ closers[c].pc = "blocked"
    /\ onceState = "done"
    /\ closers' = [closers EXCEPT ![c].pc = "ret"]
    /\ UNCHANGED <<kind, disk, done, refreshMu, refreshTimer, timers, mu,
                   published, pump, watches, notifierClosed,
                   onceState, closeErr, bodyRuns, reader, calls, isoVars, ctor, funVars>>

\* Close: return l.closeErr
CloseReturn(c) ==
    /\ closers[c].pc = "ret"
    /\ closers' = [closers EXCEPT ![c].pc = "returned", ![c].ret = closeErr]
    /\ UNCHANGED <<kind, disk, done, refreshMu, refreshTimer, timers, mu,
                   published, pump, watches, notifierClosed,
                   onceState, closeErr, bodyRuns, reader, calls, isoVars, ctor, funVars>>

(***************************************************************************)
(* The reader: ListEpisodes / IsValidToken                                 *)
(***************************************************************************)
\* mu.RLock() and the copy of the slice / the map lookup
ReadRLock ==
    /\ ctor.pc = "returned"
    /\ reader.pc = "idle"
    /\ CanRLock(mu)
    /\ mu' = [mu EXCEPT !.readers = mu.readers + 1]
    /\ reader' = [pc |-> "copied", result |-> published]
    /\ UNCHANGED <<kind, disk, done, refreshMu, refreshTimer, timers,
                   published, pump, watches, notifierClosed,
                   closers, onceState, closeErr, bodyRuns, calls, isoVars, ctor, funVars>>

\* the deferred mu.RUnlock() and the return
ReadRUnlock ==
    /\ reader.pc = "copied"
    /\ mu' = [mu EXCEPT !.readers = mu.readers - 1]
    /\ reader' = [pc |-> "idle", result |-> Snap(NoOut)]
    /\ UNCHANGED <<kind, disk, done, refreshMu, refreshTimer, timers,
                   published, pump, watches, notifierClosed,
                   closers, onceState, closeErr, bodyRuns, calls, isoVars, ctor, funVars>>

(***************************************************************************)
(* The environment: the watched source changes                             *)
(***************************************************************************)
DiskChange ==
    /\ disk.ver < MaxDisk
    /\ \E s \in DiskStates : disk' = [state |-> s, ver |-> disk.ver + 1]
    /\ UNCHANGED <<kind, done, refreshMu, refreshTimer, timers, mu, published,
                   pump, watches, notifierClosed, closers,
                   onceState, closeErr, bodyRuns, reader, calls, isoVars, ctor, funVars>>

(***************************************************************************)
(* Snapshot isolation: l.episodes as a slice of models.Episode structs.    *)
(* Title stands for the value fields, Artist for the pointer fields        *)
(* (Artist, Album, DurationSeconds, BitrateKbps): 0 is nil, a > 0 the      *)
(* address of a heap cell.  Caller 1 mutates what ListEpisodes returned    *)
(* to it, caller 2 only reads.                                             *)
(***************************************************************************)
\* episodes of the published slice
MaxEpisodes == 2

Callers == {1, 2}
Addrs == 1..MaxEpisodes
OrigHeap == [a \in Addrs |-> "orig"]

\* models.Episode as BuildEpisode returns it for the i-th file: the artist
\* of a tagged file is a pointer to a fresh string (optionalString)
Episode(i, tagged) == [title |-> "orig", artist |-> IF tagged THEN i ELSE 0]

\* ListEpisodes: make([]models.Episode, len) and copy(result, l.episodes):
\* every struct is copied, a pointer field keeps its address
CopySlice(src) == [i \in 1..Len(src) |-> src[i]]

InitSlices ==
    UNION {{[i \in 1..n |-> Episode(i, i \in tagged)] : tagged \in SUBSET (1..n)}
              : n \in 1..MaxEpisodes}

InitIsoScenario ==
    /\ InitWatcher
    /\ InitFun
    /\ kind = "library"
    /\ slice \in InitSlices
    /\ heap = OrigHeap
    /\ copies = [c \in Callers |-> <<>>]

\* ListEpisodes called by c
ListEpisodes(c) ==
    /\ copies' = [copies EXCEPT ![c] = CopySlice(slice)]
    /\ UNCHANGED <<kind, disk, done, refreshMu, refreshTimer, timers, mu,
                   published, pump, watches, notifierClosed, closers,
                   onceState, closeErr, bodyRuns, reader, calls, heap, slice,
                   ctor, funVars>>

\* caller 1: eps[i].Title = "mutated"
CallerSetTitle(i) ==
    /\ i \in 1..Len(copies[1])
    /\ copies' = [copies EXCEPT ![1][i].title = "mut"]
    /\ UNCHANGED <<kind, disk, done, refreshMu, refreshTimer, timers, mu,
                   published, pump, watches, notifierClosed, closers,
                   onceState, closeErr, bodyRuns, reader, calls, heap, slice,
                   ctor, funVars>>

\* caller 1: eps[i] = models.Episode{Title: "mutated"}
CallerReplace(i) ==
    /\ i \in 1..Len(copies[1])
    /\ copies' = [copies EXCEPT ![1][i] = [title |-> "mut", artist |-> 0]]
    /\ UNCHANGED <<kind, disk, done, refreshMu, refreshTimer, timers, mu,
                   published, pump, watches, notifierClosed, closers,
                   onceState, closeErr, bodyRuns, reader, calls, heap, slice,
                   ctor, funVars>>

\* caller 1: *eps[i].Artist = "mutated"
CallerWriteArtist(i) ==
    /\ i \in 1..Len(copies[1])
    /\ copies[1][i].artist # 0
    /\ heap' = [heap EXCEPT ![copies[1][i].artist] = "mut"]
    /\ UNCHANGED <<kind, disk, done, refreshMu, refreshTimer, timers, mu,
                   published, pump, watches, notifierClosed, closers,
                   onceState, closeErr, bodyRuns, reader, calls, copies, slice,
                   ctor, funVars>>

NextIso ==
    \/ \E c \in Callers : ListEpisodes(c)
    \/ \E i \in 1..MaxEpisodes : CallerSetTitle(i)
    \/ \E i \in 1..MaxEpisodes : CallerReplace(i)
    \/ \E i \in 1..MaxEpisodes : CallerWriteArtist(i)

SpecIso == InitIsoScenario /\ [][NextIso]_vars

(***************************************************************************)
(* One catalog walk: Library.refresh over a root directory whose entries   *)
(* are drawn in the initial state.  Entry i is absent, an audio file       *)
(* (".w" or ".W"), a text file, a directory, an entry that WalkDir cannot  *)
(* read, or an album: a directory "x" holding "x/x.w" next to a file       *)
(* "x.w"; stat is FALSE when os.Stat fails in BuildEpisode.                *)
(***************************************************************************)
Letter(i) == CASE i = 1 -> "a" [] i = 2 -> "b" [] i = 3 -> "c" [] OTHER -> "d"

EntryKinds == {"absent", "audio", "AUDIO", "text", "dir", "denied", "album"}
Entries ==
    {[kind |-> k, stat |-> st] : k \in {"audio", "AUDIO"}, st \in BOOLEAN}
    \cup {[kind |-> k, stat |-> TRUE] : k \in EntryKinds \ {"audio", "AUDIO"}}

Trees == [1..MaxFiles -> Entries]

EntryName(i, k) ==
    CASE k = "audio" -> <<Letter(i), ".", "w">>
      [] k = "AUDIO" -> <<Letter(i), ".", "W">>
      [] k = "text" -> <<Letter(i), ".", "t">>
      [] OTHER -> <<Letter(i)>>

\* the file inside the album directory of entry i
AlbumTrack(i) == <<Letter(i), "/", Letter(i), ".", "w">>

\* what WalkDir hands to its callback for entry i: a directory is followed
\* by its content, before the next name of the parent directory
EntryVisits(i, e) ==
    IF e.kind = "absent" THEN <<>>
    ELSE IF e.kind = "album"
    THEN <<[path |-> InRoot(<<Letter(i)>>), isDir |-> TRUE, err |-> FALSE,
            stat |-> e.stat],
           [path |-> InRoot(AlbumTrack(i)), isDir |-> FALSE, err |-> FALSE,
            stat |-> e.stat],
           [path |-> InRoot(EntryName(i, "audio")), isDir |-> FALSE,
            err |-> FALSE, stat |-> e.stat]>>
    ELSE <<[path |-> InRoot(EntryName(i, e.kind)),
            isDir |-> e.kind = "dir",
            err |-> e.kind = "denied",
            stat |-> e.stat]>>

\* what WalkDir hands to its callback: the root, then the entries in lexical
\* order
RECURSIVE Visits(_, _)
Visits(tree, i) ==
    IF i > Len(tree) THEN <<>>
    ELSE EntryVisits(i, tree[i]) \o Visits(tree, i + 1)

WalkVisits(tree) ==
    <<[path |-> RootDir, isDir |-> TRUE, err |-> FALSE, stat |-> TRUE]>>
    \o Visits(tree, 1)

\* filepath.Rel(root, path) for a path below the root, and filepath.Base
Rel(path) == SubSeq(path, Len(RootDir) + 2, Len(path))
Base(path) == SubSeq(path, LastSep(path, Len(path)) + 1, Len(path))

\* os.Stat on a file of the tree: ModTime() is a time in the local zone
Stat(path) == [ModTime |-> [ticks |-> cat.modTime, loc |-> "Local"]]

\* Time.UTC: the same instant, presented in UTC
UTC(t) == [t EXCEPT !.loc = "UTC"]

\* Time.Round(d): the nearest multiple of d since the zero time, a halfway
\* value goes up; the zone is kept
RoundDown(t, d) == [t EXCEPT !.ticks = t.ticks - (t.ticks % d)]
Round(t, d) ==
    LET r == t.ticks % d IN
      IF r + r < d THEN [t EXCEPT !.ticks = t.ticks - r]
      ELSE [t EXCEPT !.ticks = t.ticks + (d - r)]

\* filepath.ToSlash: every separator of the platform, "/" on the platform of
\* this model, becomes a slash
ToSlash(p) == [i \in 1..Len(p) |-> IF p[i] = "/" THEN "/" ELSE p[i]]

\* metadata.BuildEpisode, the fields that identify, order and date a record
BuildEpisodeIdFromName(path) ==
    LET info == Stat(path)
        relative == ToSlash(Rel(path)) IN
      [ID |-> Base(path), RelativePath |-> relative, Filename |-> Base(path),
       ModifiedAt |-> Round(UTC(info.ModTime), TicksPerSecond)]
BuildEpisode(path) ==
    LET info == Stat(path)
        relative == ToSlash(Rel(path)) IN
      [ID |-> relative, RelativePath |-> relative, Filename |-> Base(path),
       ModifiedAt |-> Round(UTC(info.ModTime), TicksPerSecond)]

\* the WalkDir callback of refresh: st is [episodes, err], err the value the
\* callback returns
WalkFnAbort(st, e) ==
    IF e.err \/ e.isDir \/ ~isAllowed(e.path) THEN st
    ELSE IF ~e.stat THEN [st EXCEPT !.err = "stat"]
    ELSE [st EXCEPT !.episodes = Append(@, BuildEpisode(e.path))]
WalkFn(st, e) ==
    IF e.err THEN st
    ELSE IF e.isDir THEN st
    ELSE IF ~isAllowed(e.path) THEN st
    ELSE IF ~e.stat THEN st
    ELSE [st EXCEPT !.episodes = Append(@, BuildEpisode(e.path))]

\* filepath.WalkDir: stops at the first non-nil return of the callback
RECURSIVE WalkDir(_, _)
WalkDir(visits, st) ==
    IF visits = <<>> \/ st.err # "nil" THEN st
    ELSE WalkDir(Tail(visits), WalkFn(st, Head(visits)))

\* byte order of the characters, and the < of Go strings
CharOrd(c) ==
    CASE c = "." -> 46 [] c = "/" -> 47 [] c = "W" -> 87 [] c = "a" -> 97
      [] c = "b" -> 98 [] c = "c" -> 99 [] c = "d" -> 100 [] c = "t" -> 116
      [] c = "w" -> 119 [] OTHER -> 0

RECURSIVE StrLess(_, _)
StrLess(a, b) ==
    IF b = <<>> THEN FALSE
    ELSE IF a = <<>> THEN TRUE
    ELSE IF Head(a) = Head(b) THEN StrLess(Tail(a), Tail(b))
    ELSE CharOrd(Head(a)) < CharOrd(Head(b))

\* the less function of sort.SliceStable in refresh
EpisodeLessByFilename(x, y) == StrLess(x.Filename, y.Filename)
EpisodeLess(x, y) ==
    IF x.RelativePath = y.RelativePath
    THEN StrLess(x.Filename, y.Filename)
    ELSE StrLess(x.RelativePath, y.RelativePath)

\* sort.SliceStable: a stable insertion of each element in turn
RECURSIVE InsertSorted(_, _)
InsertSorted(sorted, x) ==
    IF sorted = <<>> THEN <<x>>
    ELSE IF EpisodeLess(x, Head(sorted)) THEN <<x>> \o sorted
    ELSE <<Head(sorted)>> \o InsertSorted(Tail(sorted), x)

RECURSIVE SortEpisodes(_)
SortEpisodes(eps) ==
    IF eps = <<>> THEN <<>>
    ELSE InsertSorted(SortEpisodes(SubSeq(eps, 1, Len(eps) - 1)), eps[Len(eps)])

InitWalk ==
    /\ InitWatcher
    /\ kind = "library"
    /\ InitIso
    /\ evt = AnyEvent
    /\ InitTok
    /\ InitSrv
    /\ cat \in {[tree |-> tr, pc |-> "start", episodes |-> <<>>, err |-> "nil",
                 listed |-> <<>>, modTime |-> m]
                  : tr \in Trees, m \in 0..MaxModTime}

\* Library.refresh: walk, sort, swap
RefreshWalk ==
    /\ cat.pc = "start"
    /\ LET st == WalkDir(WalkVisits(cat.tree), [episodes |-> <<>>, err |-> "nil"]) IN
         cat' = IF st.err # "nil"
                THEN [cat EXCEPT !.pc = "failed", !.err = st.err]
                ELSE [cat EXCEPT !.pc = "done",
                                 !.episodes = SortEpisodes(st.episodes)]
    /\ UNCHANGED <<kind, disk, done, refreshMu, refreshTimer, timers, mu,
                   published, pump, watches, notifierClosed, closers,
                   onceState, closeErr, bodyRuns, reader, calls, isoVars,
                   ctor, evt, tok, srv>>

\* ListEpisodes on the snapshot the walk published
ListWalked ==
    /\ cat.pc = "done"
    /\ cat' = [cat EXCEPT !.pc = "listed", !.listed = CopySlice(cat.episodes)]
    /\ UNCHANGED <<kind, disk, done, refreshMu, refreshTimer, timers, mu,
                   published, pump, watches, notifierClosed, closers,
                   onceState, closeErr, bodyRuns, reader, calls, isoVars,
                   ctor, evt, tok, srv>>

NextWalk == RefreshWalk \/ ListWalked

SpecWalk == InitWalk /\ [][NextWalk]_vars

(***************************************************************************)
(* The token file: TokenStore.refresh parsing the content, and             *)
(* IsValidToken.  The content is drawn in the initial state, loaded by the *)
(* constructor and then edited one character at a time; every edit is      *)
(* followed by its reload.                                                 *)
(***************************************************************************)
Chars == {"a", "b", " ", "LF"}
\* the white space of strings.TrimSpace
Space == {" ", "LF", "CR", "TAB"}
Strings(n) == UNION {[1..k -> Chars] : k \in 0..n}

RECURSIVE TrimLeft(_)
TrimLeft(s) == IF s # <<>> /\ Head(s) \in Space THEN TrimLeft(Tail(s)) ELSE s

RECURSIVE TrimRight(_)
TrimRight(s) ==
    IF s # <<>> /\ s[Len(s)] \in Space
    THEN TrimRight(SubSeq(s, 1, Len(s) - 1)) ELSE s

TrimSpaceNone(s) == s
TrimSpace(s) == TrimRight(TrimLeft(s))

\* refresh: if token == "" { continue }
KeepTokenAll(t) == TRUE
KeepToken(t) == t # <<>>

\* refresh: split on the line feed, trim every line, keep the non-empty ones
ParseTokens(data) ==
    LET lines == Split(data, "LF") IN
    {t \in {TrimSpace(lines[i]) : i \in 1..Len(lines)} : KeepToken(t)}

InitParse ==
    /\ InitWatcher
    /\ kind = "tokenstore"
    /\ InitIso
    /\ evt = AnyEvent
    /\ InitCat
    /\ InitSrv
    /\ \E data \in Strings(MaxFileLen) :
         tok = [data |-> data, tokens |-> {}, pc |-> "new",
                query |-> <<>>, trimmed |-> <<>>, answer |-> FALSE]

\* the refresh() of NewTokenStore: the first load of the file
LoadTokens ==
    /\ tok.pc = "new"
    /\ tok' = [tok EXCEPT !.tokens = ParseTokens(tok.data), !.pc = "idle"]
    /\ UNCHANGED <<kind, disk, done, refreshMu, refreshTimer, timers, mu,
                   published, pump, watches, notifierClosed, closers,
                   onceState, closeErr, bodyRuns, reader, calls, isoVars,
                   ctor, evt, cat, srv>>

\* the file is edited (one character appended or removed) and reloaded
TokenFileEdits(data) ==
    {Append(data, c) : c \in IF Len(data) < MaxFileLen THEN Chars ELSE {}}
    \cup (IF data = <<>> THEN {} ELSE {SubSeq(data, 1, Len(data) - 1)})

ReloadTokens ==
    /\ tok.pc \notin {"unused", "new"}
    /\ \E data \in TokenFileEdits(tok.data) :
         tok' = [tok EXCEPT !.data = data, !.tokens = ParseTokens(data)]
    /\ UNCHANGED <<kind, disk, done, refreshMu, refreshTimer, timers, mu,
                   published, pump, watches, notifierClosed, closers,
                   onceState, closeErr, bodyRuns, reader, calls, isoVars,
                   ctor, evt, cat, srv>>

\* IsValidToken up to the lock: trim, and return false for the empty string
IsValidTrim ==
    /\ tok.pc = "idle"
    /\ \E q \in Strings(MaxQueryLen) :
         LET trimmed == TrimSpace(q) IN
         tok' = IF trimmed = <<>>
                THEN [tok EXCEPT !.query = q, !.trimmed = trimmed,
                                 !.answer = FALSE, !.pc = "answered"]
                ELSE [tok EXCEPT !.query = q, !.trimmed = trimmed,
                                 !.pc = "trimmed"]
    /\ UNCHANGED <<kind, disk, done, refreshMu, refreshTimer, timers, mu,
                   published, pump, watches, notifierClosed, closers,
                   onceState, closeErr, bodyRuns, reader, calls, isoVars,
                   ctor, evt, cat, srv>>

\* IsValidToken: RLock, the map lookup, RUnlock
IsValidLookup ==
    /\ tok.pc = "trimmed"
    /\ tok' = [tok EXCEPT !.answer = tok.trimmed \in tok.tokens,
                          !.pc = "answered"]
    /\ UNCHANGED <<kind, disk, done, refreshMu, refreshTimer, timers, mu,
                   published, pump, watches, notifierClosed, closers,
                   onceState, closeErr, bodyRuns, reader, calls, isoVars,
                   ctor, evt, cat, srv>>

\* the caller has the answer
IsValidReturn ==
    /\ tok.pc = "answered"
    /\ tok' = [tok EXCEPT !.pc = "idle", !.query = <<>>, !.trimmed = <<>>,
                          !.answer = FALSE]
    /\ UNCHANGED <<kind, disk, done, refreshMu, refreshTimer, timers, mu,
                   published, pump, watches, notifierClosed, closers,
                   onceState, closeErr, bodyRuns, reader, calls, isoVars,
                   ctor, evt, cat, srv>>

NextParse ==
    \/ LoadTokens
    \/ ReloadTokens
    \/ IsValidTrim
    \/ IsValidLookup
    \/ IsValidReturn

SpecParse == InitParse /\ [][NextParse]_vars

(***************************************************************************)
(* main and the HTTP handler: the token store is created only when a       *)
(* token file is configured, and handed to server.New as a                 *)
(* server.TokenValidator.  A request is a GET of one of the protected      *)
(* paths; it carries tokens in the query, the X-Podcast-Token header, the  *)
(* Authorization header and the cookie.                                    *)
(***************************************************************************)
TokenValues == {"good", "bad"}
ProtectedPaths == {"/episodes", "/feed", "/audio/"}
Authz ==
    {[scheme |-> "none", value |-> ""], [scheme |-> "basic", value |-> "x"]}
    \cup {[scheme |-> "bearer", value |-> v] : v \in TokenValues}
Requests ==
    [path : ProtectedPaths, query : {""} \cup TokenValues,
     header : {""} \cup TokenValues, authz : Authz,
     cookie : {""} \cup TokenValues]

\* the implicit conversion of a *auth.TokenStore to the interface type: the
\* interface value holds the dynamic type and the pointer, nil or not
ToInterface(ptr) == [type |-> "*auth.TokenStore", ptr |-> ptr]

\* server.extractToken
extractToken(r) ==
    IF r.query # "" THEN r.query
    ELSE IF r.header # "" THEN r.header
    ELSE IF r.authz.scheme = "none" THEN ""
    ELSE IF r.authz.scheme = "bearer" THEN r.authz.value
    ELSE r.cookie

\* h.validator.IsValidToken(token): the method of the dynamic type, called
\* on the pointer the interface holds; on a nil *TokenStore s.mu.RLock()
\* dereferences nil and the handler panics
ValidatorIsValidToken(v, tokens, token) ==
    IF v.ptr = 0 THEN "panic"
    ELSE IF token \in tokens THEN "true" ELSE "false"

\* serverHandler.requireToken: "pass" lets the handler go on to serve
requireToken(v, tokens, r) ==
    IF v = NilInterface THEN "pass"
    ELSE LET token == extractToken(r) IN
           IF token = "" THEN "401"
           ELSE LET valid == ValidatorIsValidToken(v, tokens, token) IN
                  CASE valid = "panic" -> "panic"
                    [] valid = "false" -> "401"
                    [] OTHER -> "pass"

\* config.ResolveTokenFile has returned tokensEnabled; the token file, when
\* there is one, holds the tokens
InitServe ==
    /\ InitWatcher
    /\ InitIso
    /\ evt = AnyEvent
    /\ InitTok
    /\ InitCat
    /\ \E en \in BOOLEAN :
       \E ts \in IF en THEN SUBSET {"good"} ELSE {{}} :
         srv = [NoSrv EXCEPT !.pc = "main", !.enabled = en, !.tokens = ts]

\* main: var tokenStore *auth.TokenStore; if tokensEnabled { tokenStore,
\* err = auth.NewTokenStore(...) }
MainNewTokenStore ==
    /\ srv.pc = "main"
    /\ srv' = [srv EXCEPT !.pc = "wire",
                          !.store = IF srv.enabled THEN 1 ELSE 0]
    /\ UNCHANGED <<kind, disk, done, refreshMu, refreshTimer, timers, mu,
                   published, pump, watches, notifierClosed, closers,
                   onceState, closeErr, bodyRuns, reader, calls, isoVars,
                   ctor, evt, tok, cat>>

\* main: handler := server.New(lib, tokenStore, ...)
MainServerNew ==
    /\ srv.pc = "wire"
    /\ srv' = [srv EXCEPT !.pc = "serving",
                          !.validator = ToInterface(srv.store)]
    /\ UNCHANGED <<kind, disk, done, refreshMu, refreshTimer, timers, mu,
                   published, pump, watches, notifierClosed, closers,
                   onceState, closeErr, bodyRuns, reader, calls, isoVars,
                   ctor, evt, tok, cat>>

\* handleEpisodes / handleFeed / handleAudio up to the token check
ServeRequest ==
    /\ srv.pc = "serving"
    /\ srv.served < MaxRequests
    /\ \E r \in Requests :
         srv' = [srv EXCEPT !.pc = "handled", !.req = r,
                            !.resp = requireToken(srv.validator, srv.tokens, r)]
    /\ UNCHANGED <<kind, disk, done, refreshMu, refreshTimer, timers, mu,
                   published, pump, watches, notifierClosed, closers,
                   onceState, closeErr, bodyRuns, reader, calls, isoVars,
                   ctor, evt, tok, cat>>

\* the handler has returned, the server takes the next request
ServeNext ==
    /\ srv.pc = "handled"
    /\ srv' = [srv EXCEPT !.pc = "serving", !.req = NoReq, !.resp = "none",
                          !.served = @ + 1]
    /\ UNCHANGED <<kind, disk, done, refreshMu, refreshTimer, timers, mu,
                   published, pump, watches, notifierClosed, closers,
                   onceState, closeErr, bodyRuns, reader, calls, isoVars,
                   ctor, evt, tok, cat>>

NextServe ==
    \/ MainNewTokenStore
    \/ MainServerNew
    \/ ServeRequest
    \/ ServeNext

SpecServe == InitServe /\ [][NextServe]_vars

\* the constructors, then the running watcher with a reader
NewStep ==
    \/ NewWatcher
    \/ NewAddWatchRecursive
    \/ NewRefresh
    \/ NewAddDir
    \/ NewAddFile
    \/ NewStart

\* the caller of Close in the specifications with one caller
MainCaller == {1}

PumpStep(limit) ==
    \/ RunRecvEvent(limit)
    \/ RunRecvError
    \/ RunLoop
    \/ ScheduleRefreshCheck
    \/ ScheduleRefreshArm
    \/ ScheduleRefreshUnlock

TimerStep ==
    \/ \E t \in Timers : TimerFire(t)
    \/ \E t \in Timers : RefreshRead(t)
    \/ \E t \in Timers : RefreshLock(t)
    \/ \E t \in Timers : RefreshUnlock(t)
    \/ \E t \in Timers : CallbackLock(t)
    \/ \E t \in Timers : CallbackUnlock(t)

CloseStep(c) ==
    \/ CloseOnceEnter(c)
    \/ CloseStopTimer(c)
    \/ CloseUnlock(c)
    \/ CloseWatcher(c)
    \/ CloseWait(c)
    \/ CloseReturn(c)

\* One watcher and one caller of Close
Next ==
    \/ PumpStep(MaxTimers)
    \/ RunExit
    \/ TimerStep
    \/ \E c \in MainCaller : CloseStep(c)

Spec == Init /\ [][Next]_vars

\* One watcher that stays open, a reader and a changing source
NextRead ==
    \/ PumpStep(MaxReadTimers)
    \/ TimerStep
    \/ ReadRLock
    \/ ReadRUnlock
    \/ DiskChange

SpecRead == Init /\ [][NextRead]_vars

\* One watcher closed by several callers, the source unchanged
NextClose ==
    \/ PumpStep(MaxCloseTimers)
    \/ RunExit
    \/ TimerStep
    \/ \E c \in Closers : CloseStep(c)
    \/ \E c \in Closers : CloseOnceBlocked(c)

NextNew ==
    \/ NewStep
    \/ PumpStep(MaxNewTimers)
    \/ TimerStep
    \/ ReadRLock
    \/ ReadRUnlock
    \/ DiskChange

SpecNew == InitNew /\ [][NextNew]_vars

\* the constructors while the watched content changes under them, then the
\* pump on the events the notifier has kept
NextCtor ==
    \/ NewStep
    \/ CtorChange
    \/ RunRecvQueued(MaxNewTimers)
    \/ ScheduleRefreshCheck
    \/ ScheduleRefreshArm
    \/ ScheduleRefreshUnlock
    \/ TimerStep

SpecCtor == InitNew /\ [][NextCtor]_vars

\* the notifier delivers one event, drawn in the initial state, any number
\* of times
InitPolicy ==
    /\ InitWatcher
    /\ InitIso
    /\ InitTok
    /\ InitCat
    /\ InitSrv
    /\ evt \in Events(kind)

NextPolicy ==
    \/ PumpStep(MaxPolicyTimers)
    \/ TimerStep

SpecPolicy == InitPolicy /\ [][NextPolicy]_vars

SpecClose == Init /\ [][NextClose]_vars

\* One watcher closed by several callers while a reader keeps reading
NextShut ==
    \/ PumpStep(MaxShutTimers)
    \/ RunExit
    \/ TimerStep
    \/ \E c \in Closers : CloseStep(c)
    \/ \E c \in Closers : CloseOnceBlocked(c)
    \/ ReadRLock
    \/ ReadRUnlock

SpecShut == Init /\ [][NextShut]_vars

\* The steps a goroutine takes by itself once it can: the pump between two
\* receives, a timer callback, a caller inside Close, a reader that holds
\* the read lock.  Receiving an event, a change of the source and the call
\* of Close are left to the environment.
PumpProgress ==
    \/ RunLoop
    \/ ScheduleRefreshCheck
    \/ ScheduleRefreshArm
    \/ ScheduleRefreshUnlock
    \/ RunExit

TimerProgress(t) ==
    \/ TimerFire(t)
    \/ RefreshRead(t)
    \/ RefreshLock(t)
    \/ RefreshUnlock(t)
    \/ CallbackLock(t)
    \/ CallbackUnlock(t)

CloseProgress(c) ==
    \/ CloseStopTimer(c)
    \/ CloseUnlock(c)
    \/ CloseWatcher(c)
    \/ CloseWait(c)
    \/ CloseOnceBlocked(c)
    \/ CloseReturn(c)

\* the Go scheduler runs every runnable goroutine
Fairness ==
    /\ WF_vars(PumpProgress)
    /\ \A t \in Timers : WF_vars(TimerProgress(t))
    /\ \A c \in Closers : WF_vars(CloseProgress(c))
    /\ WF_vars(ReadRUnlock)

SpecShutFair == SpecShut /\ Fairness

\* the paths whose events report a change of the content: a qualifying
\* file and a subdirectory for the catalog, the token file for the store
ContentPaths(k) ==
    IF k = "library" THEN {InRoot(<<"a", ".", "w">>), SubDir} ELSE {TokenFile}

\* the events the notifier reports for a change of the content; a
\* directory is created, removed or renamed, never written
ChangeDecided ==
    [k \in Kinds |->
       {rcv \in PlainDecided[k] :
          /\ rcv.ev.path \in ContentPaths(k)
          /\ "Chmod" \notin rcv.ev.op
          /\ rcv.ev.path = SubDir => "Write" \notin rcv.ev.op}]

\* the state of the source after the change an event reports: the root
\* stays readable; a removed or renamed token file is missing
ChangeOutcome(k, ev) ==
    IF k = "library" THEN {"ok"}
    ELSE IF Has(ev.op, {"Remove", "Rename"}) THEN {"missing"}
    ELSE {"ok", "unreadable"}

\* The content changes while the pump waits in its select, the notifier
\* reports the change and run() receives the event.  A new subdirectory
\* arrives with a qualifying file already in it (moved in, or filled before
\* handleEvent has added its watch): the only event is its Create.
ChangeNotified(limit) ==
    /\ pump = "select"
    /\ ~notifierClosed
    /\ disk.ver < MaxDisk
    /\ \E rcv \in ChangeDecided[kind] :
       \E s \in ChangeOutcome(kind, rcv.ev) :
         LET isDir == rcv.ev.path = SubDir /\ "Create" \in rcv.ev.op IN
           /\ isDir => SubDir \notin watches
           /\ rcv.sched => NumArmed < limit
           /\ disk' = [state |-> s, ver |-> disk.ver + 1]
           /\ watches' = IF kind = "library" /\ LibraryAddsWatch(rcv.ev, isDir)
                         THEN watches \cup {rcv.ev.path} ELSE watches
           /\ pump' = IF rcv.sched THEN "sched" ELSE "ignored"
    /\ UNCHANGED <<kind, done, refreshMu, refreshTimer, timers, mu,
                   published, notifierClosed, closers, onceState, closeErr,
                   bodyRuns, reader, calls, isoVars, ctor, funVars>>

\* One watcher that stays open: changes of the content that the notifier
\* reports, and events of operations that leave the content as it is
NextConverge ==
    \/ ChangeNotified(MaxConvTimers)
    \/ PumpStep(MaxConvTimers)
    \/ TimerStep

SpecConverge == Init /\ [][NextConverge]_vars /\ Fairness

(***************************************************************************)
(* Properties                                                              *)
(***************************************************************************)
CloseReturned == \E c \in Closers : closers[c].pc = "returned"
Open == ~done
\* nothing is pending or running: the pump waits in its select and every
\* armed timer was stopped or has run its callback to the end
Quiescent ==
    /\ pump = "select"
    /\ \A t \in Timers : timers[t].pc \in {"unarmed", "stopped", "finished"}
\* the callback of timer t has started a recompute
Ran(t) == timers[t].out.seq # 0
\* timer t is inside refresh()
InRefresh(t) == timers[t].pc \in {"read", "pub"}

\* C1: once a call to Close() has returned, no recompute starts (no source
\* read begins) and none publishes a snapshot.
C1_NoRecomputeAfterClose ==
    [][CloseReturned => (Reads' = Reads /\ published' = published)]_vars

\* timers a..b were armed by a burst: each one after the first was armed while
\* its predecessor had not fired, and the burst ends with b
BurstRun(a, b) ==
    /\ a <= b
    /\ \A i \in (a + 1)..b : timers[i].burst
    /\ b = NumArmed \/ ~timers[b + 1].burst

\* C2: on an open watcher, once everything has fired and finished, a burst of
\* scheduleRefresh calls (each after the first arriving before the previously
\* armed timer fired) has caused exactly one recompute.
C2_BurstOneRecompute ==
    (Open /\ Quiescent) =>
        \A a \in Armed, b \in Armed :
            BurstRun(a, b) => Cardinality({i \in a..b : Ran(i)}) = 1

\* every scheduleRefresh call so far found the previously armed timer fired
Spaced == \A t \in Armed : ~timers[t].burst

\* C3: on an open watcher, k spaced scheduleRefresh calls (each armed timer
\* fired before the next call) cause exactly k recomputes, one per call.
C3_SpacedOnePerCall ==
    (Open /\ Quiescent /\ Spaced) =>
        /\ Reads - 1 = calls
        /\ \A t \in Armed : timers[t].pc = "finished"

C3_Witness ==
    /\ Open /\ Quiescent /\ Spaced
    /\ calls = MaxTimers
    /\ Reads - 1 = MaxTimers

\* C4: whatever the number of Close() calls, sequential or concurrent, the
\* teardown body runs exactly once and every call returns the same error value.
C4_CloseIdempotent ==
    /\ bodyRuns <= 1
    /\ (\E c \in Closers : closers[c].pc # "idle") => bodyRuns = 1
    /\ \A c \in Closers, d \in Closers :
         (closers[c].pc = "returned" /\ closers[d].pc = "returned")
            => closers[c].ret = closers[d].ret

C4_Witness ==
    /\ \A c \in Closers : closers[c].pc = "returned" /\ closers[c].ret = "err"
    /\ bodyRuns = 1

\* C5: when Close() has returned the event pump has exited, and afterwards no
\* notifier event is consumed or handled and no watch is registered.
C5_PumpExitedAfterClose ==
    /\ [](CloseReturned => pump = "exited")
    /\ [][CloseReturned => (pump' = pump /\ watches' = watches)]_vars

C5_Witness ==
    /\ CloseReturned
    /\ pump = "exited"
    /\ calls > 0
    /\ kind = "library" => SubDir \in watches

\* what a holder of slice s sees: the value fields and the values behind
\* the pointer fields
View(s, h) ==
    [i \in 1..Len(s) |->
        [title |-> s[i].title,
         artist |-> IF s[i].artist = 0 THEN "nil" ELSE h[s[i].artist]]]

\* C6: whatever a caller does to the value ListEpisodes returned to it, the
\* published snapshot (hence what the next ListEpisodes returns) and every
\* other caller's copy stay as they were.
C6_SnapshotIsolation ==
    /\ View(CopySlice(slice), heap) = View(slice, OrigHeap)
    /\ copies[2] # <<>> => View(copies[2], heap) = View(slice, OrigHeap)

\* the outputs of the recomputes that completed: the constructor's and those
\* of the callbacks whose read of the source succeeded
CompletedOutputs ==
    {Recompute(kind, InitDisk, 1)} \cup
    {timers[t].out : t \in {u \in Timers : Ran(u) /\ ~RefreshFailed(timers[u].out)}}

\* C7: every value a reader obtains is the complete output of exactly one
\* completed recompute: never a mix of two snapshots, never the product of
\* a failed load.
C7_AtomicPublication ==
    reader.pc = "copied" =>
        /\ reader.result.ptr = reader.result.len
        /\ reader.result.ptr \in CompletedOutputs

C7_Witness ==
    /\ reader.pc = "copied"
    /\ reader.result.ptr.seq > 1
    /\ \E t \in Timers : timers[t].pc = "read"

\* the recompute armed by the last scheduleRefresh call succeeded and the
\* published snapshot is at least as recent as its read
FinalFresh ==
    (Open /\ Quiescent /\ NumArmed > 0 /\ calls = NumArmed
        /\ ~RefreshFailed(timers[NumArmed].out))
      => published.ptr.seq >= timers[NumArmed].out.seq

\* C8: on a watcher that stays open, once all timers have fired and all
\* recomputes have finished, the published snapshot comes from a read of the
\* source at or after the last scheduleRefresh call; a recompute that read
\* the source earlier never overwrites the snapshot of one that read it later.
C8_FinalSnapshotFresh ==
    /\ []FinalFresh
    /\ [][published'.ptr.seq >= published.ptr.seq]_vars

\* C9: at most one recompute is in flight at any time.
C9_OneRecomputeInFlight ==
    Cardinality({t \in Timers : InRefresh(t)}) <= 1

\* C10: in the Library, a recompute that found the root unreadable leaves
\* the previously published snapshot in place: its (empty) result is never
\* published.
C10_FailedWalkKeepsSnapshot ==
    kind = "library" => (published.ptr.err # "walk" /\ published.len.err # "walk")

(***************************************************************************)
(* Construction                                                            *)
(***************************************************************************)
\* the watcher's snapshot has been assigned by a timer callback
TimerPublished ==
    \E t \in Timers : timers[t].pc \in {"pub", "post", "clear", "finished"}

\* C11: when the root directory cannot be read during the initial recompute
\* of NewLibrary, NewLibrary returns an error and starts no watcher: no event
\* pump, the notifier closed.
C11_UnreadableRootFailsNewLibrary ==
    (kind = "library" /\ ctor.out.saw \in {"missing", "unreadable"}) =>
        (ctor.pc = "failed" /\ pump = "unstarted" /\ ~NotifierOpen)

\* C12: a TokenStore refresh after construction that fails to read the file
\* with an error other than not-found publishes nothing: no step of that
\* refresh changes the token set, its result is never the published set, and
\* the callback runs to its end (the error is only logged).
C12_FailedLoadKeepsTokens ==
    /\ [](kind = "tokenstore" =>
            /\ published.ptr.saw # "unreadable"
            /\ published.len.saw # "unreadable"
            /\ \A t \in Timers :
                 timers[t].out.saw = "unreadable" =>
                     (RefreshFailed(timers[t].out) /\
                      timers[t].pc \in {"post", "clear", "finished"}))
    /\ [][kind = "tokenstore" =>
            \A t \in Timers :
              (timers'[t] # timers[t] /\ timers'[t].out.saw = "unreadable")
                  => published' = published]_vars

C12_Witness ==
    /\ kind = "tokenstore"
    /\ published.ptr.val # EmptyVal
    /\ \E t \in Timers :
         timers[t].pc = "finished" /\ timers[t].out.saw = "unreadable"

\* C13: a TokenStore load that finds the token file missing succeeds and
\* publishes the empty token set; NewTokenStore on a missing file fails only
\* if the directory watch cannot be registered, and otherwise returns a store
\* with the empty set.
C13_MissingFileLoadsEmpty ==
    /\ [](kind = "tokenstore" =>
            /\ \A o \in {ctor.out} \cup {timers[t].out : t \in Timers} :
                 o.saw = "missing" => (o.err = "nil" /\ o.val = EmptyVal)
            /\ \A t \in Timers :
                 timers[t].out.saw = "missing" => timers[t].pc # "fired"
            /\ (ctor.out.saw = "missing" /\ ctor.pc = "failed")
                   => ctor.cause = "watch"
            /\ (ctor.out.saw = "missing" /\ ctor.pc = "returned"
                  /\ ~TimerPublished) => published = Snap(ctor.out)
            /\ (reader.pc = "copied" /\ reader.result.ptr.saw = "missing")
                   => (reader.result.ptr.val = EmptyVal /\
                       reader.result.len.val = EmptyVal))
    /\ [][kind = "tokenstore" =>
            \A t \in Timers :
              (timers[t].out.saw = "missing" /\ timers[t].pc = "pub"
                 /\ timers'[t].pc = "post")
                  => published' = Snap(timers[t].out)]_vars

C13_Witness ==
    /\ kind = "tokenstore"
    /\ ctor.pc = "returned"
    /\ ctor.out.saw = "missing"
    /\ reader.pc = "copied"
    /\ reader.result.ptr.seq = 1
    /\ reader.result.ptr.val = EmptyVal

\* C14: every failing path of NewLibrary and NewTokenStore (notifier
\* creation, initial recompute, directory watch) returns with the event pump
\* never started, no timer armed and no open notifier.
C14_FailedConstructionLeavesNothing ==
    ctor.pc = "failed" =>
        /\ pump = "unstarted"
        /\ NumArmed = 0
        /\ ~NotifierOpen
        /\ reader.pc = "idle"

C14_Witness ==
    /\ ctor.pc = "failed"
    /\ ctor.cause = "watch"
    /\ ctor.notifier = "open"
    /\ notifierClosed

\* C15: when NewLibrary or NewTokenStore returns successfully its one
\* synchronous recompute has been published, so no read observes the
\* uninitialized snapshot, and a read before any timer callback has published
\* observes the result of the constructor's recompute.
C15_PublishedBeforeFirstRead ==
    /\ ctor.pc = "returned" =>
          /\ ctor.out.seq = 1
          /\ ctor.out.saw \in DiskStates
          /\ ~RefreshFailed(ctor.out)
          /\ published.ptr.seq >= 1
          /\ published.len.seq >= 1
    /\ reader.pc = "copied" =>
          /\ ctor.pc = "returned"
          /\ reader.result.ptr.seq >= 1
          /\ reader.result.len.seq >= 1
          /\ ~TimerPublished => reader.result = Snap(ctor.out)
    /\ pump # "unstarted" => ctor.pc = "returned"

C15_Witness ==
    /\ reader.pc = "copied"
    /\ ~TimerPublished
    /\ reader.result = Snap(ctor.out)
    /\ ctor.out.seq = 1

(***************************************************************************)
(* The catalog walk                                                        *)
(***************************************************************************)
\* the entries that are audio files, and those whose record can be built
FilesOf(i, e) ==
    CASE e.kind \in {"audio", "AUDIO"} -> {EntryName(i, e.kind)}
      [] e.kind = "album" -> {AlbumTrack(i), EntryName(i, "audio")}
      [] OTHER -> {}
Qualifying(tree) == UNION {FilesOf(i, tree[i]) : i \in 1..Len(tree)}
Buildable(tree) ==
    UNION {FilesOf(i, tree[i]) : i \in {j \in 1..Len(tree) : tree[j].stat}}

RecordsOf(eps, name) == {k \in 1..Len(eps) : eps[k].RelativePath = name}

\* C16: for every set of qualifying files and every subset on which the
\* record builder fails, the recompute does not fail and its snapshot holds
\* exactly one record for each qualifying file that was built and none for
\* the others.
C16_PartialFailureIsolation ==
    cat.pc \notin {"unused", "start"} =>
        /\ cat.pc \in {"done", "listed"}
        /\ cat.err = "nil"
        /\ Len(cat.episodes) = Cardinality(Buildable(cat.tree))
        /\ \A name \in Qualifying(cat.tree) :
             Cardinality(RecordsOf(cat.episodes, name))
                 = IF name \in Buildable(cat.tree) THEN 1 ELSE 0

C16_Witness ==
    /\ cat.pc = "done"
    /\ Len(cat.episodes) >= 2
    /\ Qualifying(cat.tree) \ Buildable(cat.tree) # {}

(***************************************************************************)
(* The token set                                                           *)
(***************************************************************************)
\* the positions <<i, j>> of the segments s[i..j] of s, empty ones included
Segments(s) ==
    {p \in (1..(Len(s) + 1)) \X (0..Len(s)) : p[1] <= p[2] + 1}

\* the lines of a file: the maximal segments without a line feed
Lines(data) ==
    {SubSeq(data, p[1], p[2]) : p \in
       {p \in Segments(data) :
          /\ p[1] = 1 \/ data[p[1] - 1] = "LF"
          /\ p[2] = Len(data) \/ data[p[2] + 1] = "LF"
          /\ \A k \in p[1]..p[2] : data[k] # "LF"}}

\* t is s without the white space around it
IsTrimOf(t, s) ==
    \E p \in Segments(s) :
      /\ t = SubSeq(s, p[1], p[2])
      /\ \A k \in 1..(p[1] - 1) : s[k] \in Space
      /\ \A k \in (p[2] + 1)..Len(s) : s[k] \in Space
      /\ p[1] <= p[2] => (s[p[1]] \notin Space /\ s[p[2]] \notin Space)

TrimsOf(s) ==
    {t \in {SubSeq(s, p[1], p[2]) : p \in Segments(s)} : IsTrimOf(t, s)}

TrimmedLines(data) == UNION {TrimsOf(line) : line \in Lines(data)} \ {<<>>}

\* C17: the published token set never contains the empty string, and after
\* a load of an existing file it is exactly the set of the trimmed forms of
\* the file's non-blank lines.
C17_TokensAreTrimmedLines ==
    tok.pc # "unused" =>
        /\ <<>> \notin tok.tokens
        /\ tok.pc # "new" => tok.tokens = TrimmedLines(tok.data)

C17_Witness ==
    /\ tok.pc = "idle"
    /\ tok.data = <<"a", "LF", " ", "a">>
    /\ tok.tokens = {<<"a">>}

\* C18: IsValidToken(t) is true exactly when the trimmed t is non-empty and a
\* member of the token set published at the time of the lookup, and no step
\* of IsValidToken changes the token set, also when the set is swapped
\* between its steps.
C18_IsValidTokenIsTrimmedMembership ==
    [][/\ (tok.pc # "answered" /\ tok'.pc = "answered") =>
            tok'.answer = (\E t \in tok.tokens :
                             t # <<>> /\ IsTrimOf(t, tok'.query))
       /\ (tok.pc \in {"idle", "trimmed", "answered"} /\ tok'.pc # tok.pc) =>
            (tok'.tokens = tok.tokens /\ tok'.data = tok.data)]_vars

C18_Witness ==
    /\ tok.pc = "answered"
    /\ tok.answer
    /\ tok.query = <<" ", "a">>
    /\ tok.tokens = {<<"a">>, <<"b">>}

(***************************************************************************)
(* The event policies                                                      *)
(***************************************************************************)
\* no timer was ever armed, no refresh was scheduled and the snapshot is the
\* constructor's
Untouched ==
    /\ NumArmed = 0
    /\ refreshTimer = 0
    /\ calls = 0
    /\ Reads = 1
    /\ pump \notin {"sched", "lock", "unlock"}
    /\ published = Snap(ctor.out)

\* C19: an event whose cleaned path differs from the cleaned path of the
\* watched token file never arms the debounce timer, never triggers a
\* recompute and leaves the token set unchanged, whatever its operations.
C19_SiblingEventsIgnored ==
    (kind = "tokenstore" /\ evt # AnyEvent
       /\ Clean(evt.path) # Clean(FilePathArg)) => Untouched

C19_Witness ==
    /\ kind = "tokenstore"
    /\ evt = [path |-> <<"d", "/", "t", "o">>, op |-> {"Write", "Remove"}]
    /\ pump = "ignored"

\* the path ends with an accepted extension, in either case
AcceptedSuffixes == {<<".", "w">>, <<".", "W">>}
HasAcceptedExt(path) ==
    /\ Len(path) >= 2
    /\ SubSeq(path, Len(path) - 1, Len(path)) \in AcceptedSuffixes

\* the policy of the catalog: remove or rename of any path, create or write
\* of a path with an accepted extension
PolicySchedules(ev) ==
    \/ "Remove" \in ev.op
    \/ "Rename" \in ev.op
    \/ (("Create" \in ev.op \/ "Write" \in ev.op) /\ HasAcceptedExt(ev.path))

\* C20: Library.handleEvent schedules a debounced refresh exactly for the
\* events of the policy; every other event leaves the timer state and the
\* snapshot unchanged.
C20_CatalogEventPolicy ==
    /\ [](kind = "library" /\ evt # AnyEvent /\ ~PolicySchedules(evt)
            => Untouched)
    /\ [][(kind = "library" /\ evt # AnyEvent /\ pump = "select"
             /\ pump' \in {"sched", "ignored"})
            => (pump' = "sched" <=> PolicySchedules(evt))]_vars

C20_Witness ==
    /\ kind = "library"
    /\ evt = [path |-> InRoot(<<"n", ".", "t">>), op |-> {"Rename", "Chmod"}]
    /\ \E t \in Timers : timers[t].pc = "finished"

(***************************************************************************)
(* The order of the catalog                                                *)
(***************************************************************************)
\* a is before b in the byte order of strings: they agree up to a position
\* where a ends and b goes on, or where a has the smaller byte
Precedes(a, b) ==
    \E p \in 1..(Len(a) + 1) :
      /\ p - 1 <= Len(b)
      /\ \A k \in 1..(p - 1) : a[k] = b[k]
      /\ IF p > Len(a) THEN Len(b) >= p
         ELSE p <= Len(b) /\ CharOrd(a[p]) < CharOrd(b[p])

InOrder(x, y) ==
    \/ Precedes(x.RelativePath, y.RelativePath)
    \/ /\ x.RelativePath = y.RelativePath
       /\ (Precedes(x.Filename, y.Filename) \/ x.Filename = y.Filename)

Ascending(eps) == \A k \in 1..(Len(eps) - 1) : InOrder(eps[k], eps[k + 1])

\* the records in the order the walk met them
WalkOrder(tree) ==
    WalkDir(WalkVisits(tree), [episodes |-> <<>>, err |-> "nil"]).episodes

\* C21: every published catalog snapshot is sorted ascending by relative
\* path, ties broken by filename, whatever the order in which the walk met
\* the files, and ListEpisodes returns the records in that order.
C21_SnapshotSorted ==
    /\ cat.pc \in {"done", "listed"} => Ascending(cat.episodes)
    /\ cat.pc = "listed" =>
         /\ cat.listed = cat.episodes
         /\ Ascending(cat.listed)

C21_Witness ==
    /\ cat.pc = "listed"
    /\ Len(cat.listed) >= 3
    /\ ~Ascending(WalkOrder(cat.tree))

(***************************************************************************)
(* The snapshot lock during a recompute                                    *)
(***************************************************************************)
\* the timers whose refresh is reading the source or has read it and not
\* yet asked for the lock
InWalk == {t \in Timers : timers[t].pc \in {"fired", "read"}}
InAssign == {t \in Timers : timers[t].pc = "pub"}

\* C24: a refresh does not hold the snapshot write lock while it walks,
\* reads, builds or parses; the lock is held only for the assignment, so a
\* reader can take the read lock whenever no refresh is in its assignment.
C24_LockOnlyForAssignment ==
    /\ \A t \in InWalk : mu.writer # t
    /\ mu.writer # 0 => mu.writer \in InAssign
    /\ InAssign = {} => CanRLock(mu)

C24_Witness ==
    /\ reader.pc = "copied"
    /\ \E t \in InWalk : timers[t].pc = "fired"
    /\ \E t \in InWalk : timers[t].pc = "read"

(***************************************************************************)
(* scheduleRefresh after done                                              *)
(***************************************************************************)
\* C30: a scheduleRefresh call whose first statement runs after done is
\* raised returns at once: it arms no timer, stops none, does not touch the
\* timer lock or the timer handle, and leaves the snapshot as it is.
C30_ScheduleAfterDoneIsNoOp ==
    [][(pump = "sched" /\ done /\ pump' # pump)
         => /\ pump' = "noop"
            /\ UNCHANGED <<timers, refreshTimer, refreshMu, published, mu,
                           calls>>]_vars

C30_Witness ==
    /\ pump = "noop"
    /\ done
    /\ refreshTimer # 0
    /\ timers[refreshTimer].pc = "pending"

(***************************************************************************)
(* The order of the teardown                                               *)
(***************************************************************************)
TeardownOrder == <<"done", "cancel", "notifier", "wait">>

\* the teardown steps executed so far, by whichever caller ran the body
Teardown == {closers[c].did : c \in Closers} \ {<<>>}
Reached(n) == \E steps \in Teardown : Len(steps) >= n

\* C29: the body of Close runs once and raises done, cancels the pending
\* timer under the timer lock, closes the notifier and waits for the pump,
\* in this order: the steps executed so far are always an initial part of
\* that sequence, and each effect is there exactly when its step has run.
C29_ShutdownOrder ==
    /\ Cardinality(Teardown) <= 1
    /\ \A steps \in Teardown :
         /\ Len(steps) <= Len(TeardownOrder)
         /\ steps = SubSeq(TeardownOrder, 1, Len(steps))
    /\ done <=> Reached(1)
    /\ \A c \in Closers :
         refreshMu = ByCloser(c) => closers[c].did = SubSeq(TeardownOrder, 1, 2)
    /\ notifierClosed <=> Reached(3)
    /\ onceState = "done" <=> Reached(4)
    /\ Reached(4) => pump = "exited"

C29_Witness ==
    /\ \E c \in Closers : closers[c].pc = "returned"
                            /\ closers[c].did = TeardownOrder
    /\ \E t \in Timers : timers[t].pc = "stopped"

(***************************************************************************)
(* Close and the snapshot                                                  *)
(***************************************************************************)
\* a step of a caller of Close
CloseActs == closers' # closers

\* C26: no step of Close changes the published snapshot or touches the
\* snapshot lock, and after Close has returned a read still goes through
\* whenever no refresh is swapping, and returns the snapshot then published.
C26_CloseKeepsSnapshot ==
    /\ [][CloseActs => (published' = published /\ mu' = mu)]_vars
    /\ [][(CloseReturned /\ reader.pc = "idle" /\ reader'.pc = "copied")
            => reader'.result = published]_vars
    /\ [](CloseReturned /\ reader.pc = "idle" /\ mu.writer = 0
            => ENABLED ReadRLock)

C26_Witness ==
    /\ \A c \in Closers : closers[c].pc = "returned"
    /\ reader.pc = "copied"
    /\ reader.result = published
    /\ published.ptr.seq > 1

(***************************************************************************)
(* Termination of the shutdown                                             *)
(***************************************************************************)
\* C25: under fair scheduling every call of Close that has begun returns
\* and, once done is raised, the pump exits, whatever the pump, the timer
\* callbacks and the other callers are doing when Close begins.
C25_CloseTerminates ==
    /\ \A c \in Closers :
         (closers[c].pc # "idle") ~> (closers[c].pc = "returned")
    /\ done ~> (pump = "exited")

C25_Witness ==
    /\ \A c \in Closers : closers[c].pc = "returned"
    /\ pump = "exited"
    /\ \E t \in Timers : timers[t].pc = "finished" /\ Ran(t)
    /\ \E c \in Closers : closers[c].did # TeardownOrder

(***************************************************************************)
(* The last-modified timestamp                                             *)
(***************************************************************************)
\* the whole second at or before tick n
WholeSecondBefore(n) ==
    CHOOSE m \in 0..n : m % TicksPerSecond = 0 /\ n - m < TicksPerSecond

\* C28 as stated: the timestamp of every record is the modification time
\* of its file truncated to whole seconds, never later than that time, and
\* is expressed in UTC.
C28_TimestampTruncated ==
    cat.pc \in {"done", "listed"} =>
        \A k \in 1..Len(cat.episodes) :
          /\ cat.episodes[k].ModifiedAt.ticks = WholeSecondBefore(cat.modTime)
          /\ cat.episodes[k].ModifiedAt.ticks <= cat.modTime
          /\ cat.episodes[k].ModifiedAt.loc = "UTC"

\* C28 amended: the timestamp of every record is the whole second nearest
\* to the modification time of its file, the later one when the time is
\* half-way between two seconds, and is expressed in UTC.
C28_TimestampRounded ==
    cat.pc \in {"done", "listed"} =>
        \A k \in 1..Len(cat.episodes) :
          LET m == cat.episodes[k].ModifiedAt.ticks IN
            /\ m % TicksPerSecond = 0
            /\ 2 * (m - cat.modTime) <= TicksPerSecond
            /\ 2 * (cat.modTime - m) < TicksPerSecond
            /\ cat.episodes[k].ModifiedAt.loc = "UTC"

C28_Witness ==
    /\ cat.pc = "done"
    /\ Len(cat.episodes) >= 1
    /\ cat.episodes[1].ModifiedAt.ticks > cat.modTime
    /\ cat.modTime % TicksPerSecond # 0

(***************************************************************************)
(* Token enforcement                                                       *)
(***************************************************************************)
\* the tokens a request carries, wherever it carries them
Carried(r) ==
    ({r.query, r.header, r.cookie}
       \cup (IF r.authz.scheme = "bearer" THEN {r.authz.value} ELSE {}))
    \ {""}

\* C27: with no token file configured every request to a protected path is
\* served, token or not; with a token file configured a request is served
\* only if it carries a valid token, and is answered 401 otherwise.
C27_TokenEnforcementFollowsConfiguration ==
    srv.pc = "handled" =>
        IF ~srv.enabled THEN srv.resp = "pass"
        ELSE /\ srv.resp = "pass" => Carried(srv.req) \cap srv.tokens # {}
             /\ srv.resp # "pass" => srv.resp = "401"

(***************************************************************************)
(* Convergence                                                             *)
(***************************************************************************)
\* the changes have stopped and everything they set off has run to its end
Settled == Open /\ Quiescent /\ mu.writer = 0

\* C22: on a Library that stays open, once the changes under the root have
\* stopped and every pending timer and refresh has finished, the snapshot
\* that ListEpisodes returns holds the records of the files then on disk.
C22_CatalogConverges ==
    (kind = "library" /\ Settled /\ disk.state = "ok")
      => (published.ptr.val = ContentVal(disk) /\ published.len = published.ptr)

\* C23: on a TokenStore that stays open, once the changes of the token file
\* have stopped and every pending timer and refresh has finished, the
\* snapshot that IsValidToken consults holds the tokens of the file's final
\* content, and no token when the file is absent.
C23_CredentialsConverge ==
    (kind = "tokenstore" /\ Settled /\ disk.state \in {"ok", "missing"})
      => published.ptr.val =
           (IF disk.state = "ok" THEN ContentVal(disk) ELSE EmptyVal)

(***************************************************************************)
(* The identifier of a record                                              *)
(***************************************************************************)
\* the identifiers of a snapshot, with the positions that carry each
IdsOf(eps) == {eps[k].ID : k \in 1..Len(eps)}
Carriers(eps, id) == {k \in 1..Len(eps) : eps[k].ID = id}

\* C33: in every published catalog snapshot the identifier of a record is
\* the slash-separated path of its file relative to the root, and no two
\* records of the snapshot have the same identifier.
C33_IdentifierIsRelativePath ==
    cat.pc \in {"done", "listed"} =>
        /\ IdsOf(cat.episodes) = Buildable(cat.tree)
        /\ \A id \in IdsOf(cat.episodes) :
             Cardinality(Carriers(cat.episodes, id)) = 1
        /\ \A k \in 1..Len(cat.episodes) :
             cat.episodes[k].ID = cat.episodes[k].RelativePath

C33_Witness ==
    /\ cat.pc = "done"
    /\ \E j, k \in 1..Len(cat.episodes) :
         /\ j # k
         /\ cat.episodes[j].Filename = cat.episodes[k].Filename
         /\ cat.episodes[j].ID # cat.episodes[k].ID

(***************************************************************************)
(* The two locks                                                           *)
(***************************************************************************)
\* the execution contexts, and the locks each one holds
ByReader == [who |-> "reader", id |-> 0]
Contexts ==
    {ByPump, ByReader} \cup {ByTimer(t) : t \in Timers}
                      \cup {ByCloser(c) : c \in Closers}
HoldsRefreshMu(x) == refreshMu = x
HoldsMu(x) ==
    \/ x.who = "timer" /\ mu.writer = x.id
    \/ x.who = "reader" /\ reader.pc = "copied"

\* C35: no execution context (pump, timer callback, Close caller, reader)
\* holds the timer lock and the snapshot lock at the same time; whoever holds
\* one of them releases it without waiting for the other, and the pump arms
\* and Close cancels as soon as the timer lock is free, whatever readers or
\* a snapshot swap are doing.
C35_TwoLockDiscipline ==
    /\ \A x \in Contexts : ~(HoldsRefreshMu(x) /\ HoldsMu(x))
    /\ refreshMu \in {Free} \cup (Contexts \ {ByReader})
    /\ mu.writer \in {0} \cup Timers
    /\ refreshMu = ByPump => ENABLED ScheduleRefreshUnlock
    /\ \A t \in Timers :
         /\ refreshMu = ByTimer(t) => ENABLED CallbackUnlock(t)
         /\ mu.writer = t => ENABLED RefreshUnlock(t)
    /\ \A c \in Closers : refreshMu = ByCloser(c) => ENABLED CloseUnlock(c)
    /\ reader.pc = "copied" => ENABLED ReadRUnlock
    /\ (pump = "lock" /\ refreshMu = Free) => ENABLED ScheduleRefreshArm
    /\ \A c \in Closers :
         (closers[c].pc = "tdLock" /\ refreshMu = Free)
             => ENABLED CloseStopTimer(c)

C35_Witness ==
    /\ \E c \in Closers : refreshMu = ByCloser(c)
    /\ mu.writer # 0

(***************************************************************************)
(* A failed recompute                                                      *)
(***************************************************************************)
\* the callback of timer t has made its attempt and refresh returned an error
Failed(t) == Ran(t) /\ RefreshFailed(timers[t].out)

\* C31: a firing makes one recompute attempt, and a failed attempt arms no
\* timer and starts no retry: the failing step changes no other timer, the
\* handle or the snapshot, the callback of a failed attempt only goes on to
\* its end, and a timer becomes pending only when scheduleRefresh arms it,
\* which the pump runs only for an event it has received.
C31_OneAttemptNoRetry ==
    [][ /\ \A t \in Timers :
             /\ (timers'[t].pc = "pending" /\ timers[t].pc # "pending")
                   => /\ timers[t].pc = "unarmed"
                      /\ pump = "lock" /\ pump' = "unlock"
             /\ timers'[t].out # timers[t].out
                   => /\ timers[t].pc = "fired"
                      /\ ~Ran(t) /\ Ran(t)'
             /\ (timers[t].pc = "fired" /\ timers'[t].pc # "fired") => Ran(t)'
             /\ Failed(t) => timers'[t].pc \in {"post", "clear", "finished"}
             /\ (Failed(t)' /\ ~Failed(t))
                   => /\ \A u \in Timers \ {t} : timers'[u] = timers[u]
                      /\ UNCHANGED <<refreshTimer, published, pump>>
        /\ (pump' = "sched" /\ pump # "sched") => pump = "select"
        /\ (pump' = "lock" /\ pump # "lock") => pump = "sched"
      ]_vars

C31_Witness ==
    /\ Quiescent
    /\ \E t \in Timers : timers[t].pc = "finished" /\ Failed(t)
    /\ \A t \in Timers : timers[t].pc # "pending"
    /\ disk.state = "unreadable"

(***************************************************************************)
(* A directory that appears with files in it                               *)
(***************************************************************************)
\* C32: when a directory has appeared under the root with qualifying files
\* in it and nothing follows, the Library has a watch on it and, once
\* everything the event set off has finished, the snapshot holds those files.
C32_NewDirectoryListed ==
    (kind = "library" /\ SubDir \in watches /\ Settled /\ disk.state = "ok")
      => published.ptr.val = ContentVal(disk)

(***************************************************************************)
(* One armed timer                                                         *)
(***************************************************************************)
\* the timers that are armed and have not fired
Pending == {t \in Timers : timers[t].pc = "pending"}

\* C34: a watcher has at most one armed timer that has not fired, and that
\* timer is the one under the handle: scheduleRefresh stops the timer armed
\* before, and no callback clears a handle that refers to a later timer.
C34_OnePendingTimer ==
    /\ Cardinality(Pending) <= 1
    /\ \A t \in Pending : refreshTimer = t

(***************************************************************************)
(* Changes around construction                                             *)
(***************************************************************************)
\* the constructor has returned a watcher whose watch on the root / on the
\* directory of the token file is registered
Registered ==
    /\ ctor.pc = "returned"
    /\ IF kind = "library" THEN RootDir \in watches ELSE TokenDir \in watches

\* C36: no change is lost around construction: once the constructor has
\* returned with its watch registered, every event has been received and
\* every timer and refresh has finished, the snapshot holds the content then
\* on disk, whenever after the initial read that content was written.
C36_NoChangeLostAroundConstruction ==
    (Registered /\ Settled /\ ctor.queued = 0 /\ disk.state = "ok")
      => published.ptr.val = ContentVal(disk)

====
